---- MODULE Spec2Model ----
(***************************************************************************)
(* LightRAG MCP bridge: the HTTP client (client.py) and the asynchronous   *)
(* tool dispatcher (lightrag_mcp.py call_tool).                            *)
(*                                                                         *)
(* Spec        the dispatcher: one call_tool invocation at a time, each    *)
(*             creating its own LightRagHttpClient, the backend answering  *)
(*             every request with any status / body / transport failure.   *)
(* ClientSpec  one LightRagHttpClient object whose methods are invoked     *)
(*             one after another (the object is kept between calls).       *)
(***************************************************************************)
EXTENDS Integers, Sequences, FiniteSets, TLC

(* ------------------------------------------------------------------ *)
(* bounds of the model                                                  *)
(* ------------------------------------------------------------------ *)

\* longest file_paths list handed to documents_upload_files
MaxFiles == 2

(* ------------------------------------------------------------------ *)
(* Python / JSON values: one record shape for every value, so that any  *)
(* two values can be compared.  t is the type tag; s the text of a str; *)
(* i the number of an int or bool; l the items of a list; d the items   *)
(* of a dict (a function from keys to values).                          *)
(* ------------------------------------------------------------------ *)

PyNone == [t |-> "none", s |-> "", i |-> 0, l |-> <<>>, d |-> <<>>]

PyStr(x) == [t |-> "str", s |-> x, i |-> 0, l |-> <<>>, d |-> <<>>]

PyInt(n) == [t |-> "int", s |-> "", i |-> n, l |-> <<>>, d |-> <<>>]

PyBool(b) == [t |-> "bool", s |-> "", i |-> IF b THEN 1 ELSE 0, l |-> <<>>, d |-> <<>>]

\* a float, kept by the text Python prints for it
PyFloat(x) == [t |-> "float", s |-> x, i |-> 0, l |-> <<>>, d |-> <<>>]

PyList(q) == [t |-> "list", s |-> "", i |-> 0, l |-> q, d |-> <<>>]

PyDict(f) == [t |-> "dict", s |-> "", i |-> 0, l |-> <<>>, d |-> f]

\* Python truthiness: `if x`, `not x`
Truthy(v) ==
    CASE v.t = "none" -> FALSE
      [] v.t = "str"  -> v.s /= ""
      [] v.t = "int"  -> v.i /= 0
      [] v.t = "bool" -> v.i /= 0
      [] v.t = "float" -> v.s /= "0.0"
      [] v.t = "list" -> v.l /= <<>>
      [] v.t = "dict" -> DOMAIN v.d /= {}

\* k in payload
HasKey(v, k) == v.t = "dict" /\ k \in DOMAIN v.d

\* arguments.get(k, default)
GetOr(a, k, default) ==
    IF k \in DOMAIN a THEN a[k] ELSE default

\* arguments.get(k)
Get(a, k) == GetOr(a, k, PyNone)

\* bool(x)
ToBool(v) == PyBool(Truthy(v))

\* the order in which the keys of a dict are written out
KeyOrder ==
    << "access_token", "token", "accessToken", "response", "other", "status",
       "track_id", "raw", "error", "raw_stream" >>

RECURSIVE ReprList(_, _)
RECURSIVE ReprItems(_, _, _)
RECURSIVE Repr(_)
\* repr(x), as str() gives it for everything that is not a str
Repr(v) ==
    CASE v.t = "none" -> "None"
      [] v.t = "str"  -> "'" \o v.s \o "'"
      [] v.t = "int"  -> ToString(v.i)
      [] v.t = "bool" -> IF v.i = 1 THEN "True" ELSE "False"
      [] v.t = "list" -> "[" \o ReprList(v.l, 1) \o "]"
      [] v.t = "dict" -> "{" \o ReprItems(v.d, 1, "") \o "}"

ReprList(q, n) ==
    IF n > Len(q) THEN ""
    ELSE (IF n = 1 THEN "" ELSE ", ") \o Repr(q[n]) \o ReprList(q, n + 1)

ReprItems(f, n, sep) ==
    IF n > Len(KeyOrder) THEN ""
    ELSE IF KeyOrder[n] \in DOMAIN f
         THEN sep \o "'" \o KeyOrder[n] \o "': " \o Repr(f[KeyOrder[n]])
              \o ReprItems(f, n + 1, ", ")
         ELSE ReprItems(f, n + 1, sep)

\* str(x)
Str(v) == IF v.t = "str" THEN v.s ELSE Repr(v)

(* ------------------------------------------------------------------ *)
(* exceptions                                                           *)
(* ------------------------------------------------------------------ *)

NoExc == [type |-> "none", msg |-> "", status |-> 0, reason |-> ""]

\* raise ValueError(msg) and every other exception that is not an HTTP status error
Raise(type, msg) == [type |-> type, msg |-> msg, status |-> 0, reason |-> ""]

\* r.raise_for_status() on a response that is not 2xx
HTTPStatusError(status, reason) ==
    [type |-> "HTTPStatusError",
     msg |-> "Client error '" \o ToString(status) \o " " \o reason \o "'",
     status |-> status, reason |-> reason]

(* ------------------------------------------------------------------ *)
(* state                                                                *)
(* ------------------------------------------------------------------ *)

VARIABLES
    api_key,        \* self.api_key: the key resolve_config gives every client
    files,          \* the paths that exist as regular files on the local disk
    pc,             \* where the invocation in progress stands
    name,           \* the tool (Spec) or client method (ClientSpec) invoked last
    arguments,      \* its arguments
    access_token,   \* self.access_token of the client object in use
    sent,           \* the HTTP requests issued since the invocation started
    r,              \* the HTTP response the client read last
    tasks,          \* the upload tasks of the last documents_upload_files call
    ndone,          \* how many of those tasks have finished
    ret,            \* what the client method returned
    raised,         \* the exception the invocation raised, NoExc if none
    result,         \* the content blocks call_tool returned last
    bearerToken,    \* history: the token of the last login response that carried one
    environ,        \* the command line flags, the LIGHTRAG_* variables, config.yaml
    enabled_tools,  \* the tool names resolve_config returned last
    advertised,     \* the tool names list_tools_mcp returned last
    open_clients    \* the httpx clients created and not closed (MaxClients: that many or more)

vars ==
    << api_key, files, pc, name, arguments, access_token, sent, r, tasks, ndone,
       ret, raised, result, bearerToken, environ, enabled_tools, advertised,
       open_clients >>

(* ------------------------------------------------------------------ *)
(* the backend and the local disk                                       *)
(* ------------------------------------------------------------------ *)

\* the base URL resolve_config falls back to
BaseUrl == "http://localhost:9621"

\* the local paths the uploads are tried on
Paths == {"/a", "/b"}

\* the keys a login response is scanned for, in priority order
TokenKeys == << "access_token", "token", "accessToken" >>

\* the values the backend puts under a token key
TokenValues == {PyStr("xyz"), PyStr("abc"), PyStr(""), PyNone}

\* the response a transport failure (connect error, timeout) stands for
NoResponse ==
    [kind |-> "transport", status |-> 0, reason |-> "", isjson |-> FALSE,
     json |-> PyNone, text |-> "", lines |-> <<>>]

\* a response whose body decodes as JSON
JsonResponse(status, reason, v) ==
    [kind |-> "http", status |-> status, reason |-> reason, isjson |-> TRUE,
     json |-> v, text |-> "", lines |-> <<>>]

\* a response whose body is not JSON
TextResponse(status, reason, text) ==
    [kind |-> "http", status |-> status, reason |-> reason, isjson |-> FALSE,
     json |-> PyNone, text |-> text, lines |-> <<>>]

\* a streamed response: its body arrives as lines
StreamResponse(status, reason, lines) ==
    [kind |-> "http", status |-> status, reason |-> reason, isjson |-> FALSE,
     json |-> PyNone, text |-> "", lines |-> lines]

\* the failing answers: non-2xx statuses
ErrorResponses ==
    { TextResponse(404, "Not Found", "missing"),
      JsonResponse(401, "Unauthorized", PyDict("status" :> PyStr("denied"))),
      JsonResponse(404, "Not Found", PyDict("access_token" :> PyStr("xyz"))) }

\* the 2xx answers to POST /login: every choice of token keys and values
LoginResponses ==
    { JsonResponse(200, "OK", PyDict(f)) :
        f \in UNION { [K -> TokenValues] : K \in SUBSET {"access_token", "token", "accessToken"} } }

\* the 2xx answers to any request
OkResponses ==
    { JsonResponse(200, "OK", PyDict("response" :> PyStr("pong"))),
      JsonResponse(200, "OK", PyDict("response" :> PyNone)),
      JsonResponse(200, "OK", PyDict("other" :> PyStr("value"))),
      JsonResponse(200, "OK", PyDict("track_id" :> PyStr("t1"))),
      JsonResponse(200, "OK", PyList(<< PyStr("a") >>)),
      TextResponse(200, "OK", "plain text") }

\* the lines a streamed answer may consist of
StreamLines ==
    { <<>>, << "a" >>, << "a", "", "b" >>, << "", "" >>, << "b", "a" >> }

StreamResponses == { StreamResponse(200, "OK", q) : q \in StreamLines }

\* what the backend may answer to a request
Responses(req) ==
    {NoResponse} \cup ErrorResponses \cup
    (IF req.stream THEN StreamResponses
     ELSE IF req.url = BaseUrl \o "/login" THEN LoginResponses \cup OkResponses
     ELSE OkResponses)

(* ------------------------------------------------------------------ *)
(* LightRagHttpClient (client.py)                                       *)
(* ------------------------------------------------------------------ *)

NoRequest ==
    [verb |-> "", url |-> "", headers |-> <<>>, params |-> <<>>, enc |-> "",
     body |-> PyNone, stream |-> FALSE]

\* a client method that awaits an HTTP request
Send(req) == [kind |-> "send", req |-> req, ret |-> PyNone]

\* a client method that returns without any request
Return(v) == [kind |-> "return", req |-> NoRequest, ret |-> v]

_headers(self) ==
    ("Accept" :> "application/json")
    @@ (IF Truthy(self.api_key) THEN ("X-API-Key" :> Str(self.api_key)) ELSE <<>>)
    @@ (IF Truthy(self.access_token)
        THEN ("Authorization" :> ("Bearer " \o Str(self.access_token)))
        ELSE <<>>)

_params(self, extra) ==
    extra
    @@ (IF Truthy(self.api_key) /\ "api_key_header_value" \notin DOMAIN extra
        THEN ("api_key_header_value" :> self.api_key)
        ELSE <<>>)

\* _get issuing a POST with an empty JSON body
_get_AsPost(self, path, params) ==
    Send([verb |-> "POST", url |-> BaseUrl \o path, headers |-> _headers(self),
          params |-> _params(self, params), enc |-> "json", body |-> PyDict(<<>>),
          stream |-> FALSE])

_get(self, path, params) ==
    Send([verb |-> "GET", url |-> BaseUrl \o path, headers |-> _headers(self),
          params |-> _params(self, params), enc |-> "none", body |-> PyNone,
          stream |-> FALSE])

_post_json(self, path, payload, stream) ==
    Send([verb |-> "POST", url |-> BaseUrl \o path, headers |-> _headers(self),
          params |-> _params(self, <<>>), enc |-> "json", body |-> payload,
          stream |-> stream])

_post_multipart(self, path, file) ==
    Send([verb |-> "POST", url |-> BaseUrl \o path, headers |-> _headers(self),
          params |-> _params(self, <<>>), enc |-> "multipart", body |-> file,
          stream |-> FALSE])

_delete(self, path, json_body) ==
    Send([verb |-> "DELETE", url |-> BaseUrl \o path, headers |-> _headers(self),
          params |-> _params(self, <<>>),
          enc |-> IF json_body = PyNone THEN "none" ELSE "json",
          body |-> json_body, stream |-> FALSE])

health(self) == _get(self, "/health", <<>>)

auth_status(self) == _get(self, "/auth-status", <<>>)

\* login sending the headers of every other request, Accept included
login_WithAccept(self, username, password, scope) ==
    Send([verb |-> "POST", url |-> BaseUrl \o "/login", headers |-> _headers(self),
          params |-> <<>>, enc |-> "form",
          body |-> PyDict([username |-> username, password |-> password,
                           scope |-> scope]),
          stream |-> FALSE])

login(self, username, password, scope) ==
    Send([verb |-> "POST", url |-> BaseUrl \o "/login",
          headers |-> [k \in DOMAIN _headers(self) \ {"Accept"} |-> _headers(self)[k]],
          params |-> <<>>, enc |-> "form",
          body |-> PyDict([username |-> username, password |-> password,
                           scope |-> scope]),
          stream |-> FALSE])

documents_scan(self) == _post_json(self, "/documents/scan", PyDict(<<>>), FALSE)

\* upload_file without the exists/is_file check
upload_file_Unchecked(self, file_path) ==
    _post_multipart(self, "/documents/upload", PyDict("file" :> file_path))

upload_file(self, file_path) ==
    IF file_path.s \notin files
    THEN Return(PyDict("error" :> PyStr("File not found: " \o Str(file_path))))
    ELSE _post_multipart(self, "/documents/upload", PyDict("file" :> file_path))

insert_text(self, text, file_source) ==
    _post_json(self, "/documents/text",
               PyDict(("text" :> text)
                      @@ (IF file_source /= PyNone
                          THEN ("file_source" :> file_source) ELSE <<>>)),
               FALSE)

insert_texts(self, texts, file_sources) ==
    _post_json(self, "/documents/texts",
               PyDict(("texts" :> texts)
                      @@ (IF file_sources /= PyNone
                          THEN ("file_sources" :> file_sources) ELSE <<>>)),
               FALSE)

documents_clear(self) == _delete(self, "/documents", PyNone)

documents_statuses(self) == _get(self, "/documents", <<>>)

pipeline_status(self) == _get(self, "/documents/pipeline_status", <<>>)

delete_document(self, doc_ids, delete_file) ==
    _delete(self, "/documents/delete_document",
            PyDict([doc_ids |-> doc_ids, delete_file |-> ToBool(delete_file)]))

clear_cache(self) == _post_json(self, "/documents/clear_cache", PyDict(<<>>), FALSE)

delete_entity(self, entity_name) ==
    _delete(self, "/documents/delete_entity", PyDict([entity_name |-> entity_name]))

delete_relation(self, source_entity, target_entity) ==
    _delete(self, "/documents/delete_relation",
            PyDict([source_entity |-> source_entity,
                    target_entity |-> target_entity]))

track_status(self, track_id) ==
    _get(self, "/documents/track_status/" \o Str(track_id), <<>>)

documents_paginated(self, request) == _post_json(self, "/documents/paginated", request, FALSE)

status_counts(self) == _get(self, "/documents/status_counts", <<>>)

query(self, request) == _post_json(self, "/query", request, FALSE)

query_stream(self, request) == _post_json(self, "/query/stream", request, TRUE)

graph_labels(self) == _get(self, "/graph/label/list", <<>>)

graphs(self, label, max_depth, max_nodes) ==
    _get(self, "/graphs",
         [label |-> label, max_depth |-> max_depth, max_nodes |-> max_nodes])

entity_exists(self, name_) == _get(self, "/graph/entity/exists", [name |-> name_])

update_entity(self, entity_name, updated_data, allow_rename) ==
    _post_json(self, "/graph/entity/edit",
               PyDict([entity_name |-> entity_name, updated_data |-> updated_data,
                       allow_rename |-> ToBool(allow_rename)]),
               FALSE)

update_relation(self, source_id, target_id, updated_data) ==
    _post_json(self, "/graph/relation/edit",
               PyDict([source_id |-> source_id, target_id |-> target_id,
                       updated_data |-> updated_data]),
               FALSE)

api_version(self) == _get(self, "/api/version", <<>>)

api_tags(self) == _get(self, "/api/tags", <<>>)

api_ps(self) == _get(self, "/api/ps", <<>>)

api_generate(self, payload) == _post_json(self, "/api/generate", payload, FALSE)

api_chat(self, payload) == _post_json(self, "/api/chat", payload, FALSE)

(* ---- what a client method does with the response it awaited ------- *)

\* what a client method ends with: a value or an exception, and the token
\* the client holds afterwards
Outcome(v, e, token) == [ret |-> v, exc |-> e, token |-> token]

\* the request failed before any response: httpx raises a transport error
TransportError == Raise("ConnectError", "All connection attempts failed")

Is2xx(status) == status >= 200 /\ status <= 299

\* r.raise_for_status(): the exception it raises, NoExc for a 2xx response
raise_for_status(resp) ==
    IF resp.kind = "transport" THEN TransportError
    ELSE IF Is2xx(resp.status) THEN NoExc
    ELSE HTTPStatusError(resp.status, resp.reason)

\* the fallback handing back the bare body text instead of {"raw": text}
json_or_raw_BareText(resp) ==
    IF resp.isjson THEN resp.json ELSE PyStr(resp.text)

\* try: r.json()  except: {"raw": r.text}
json_or_raw(resp) ==
    IF resp.isjson THEN resp.json ELSE PyDict("raw" :> PyStr(resp.text))

\* a client that forgets its token when a request fails
FinishJson_DropsToken(self, resp) ==
    IF raise_for_status(resp) /= NoExc
    THEN Outcome(PyNone, raise_for_status(resp), PyNone)
    ELSE Outcome(json_or_raw(resp), NoExc, self.access_token)

\* _get, _post_json, _post_multipart, _delete with want_obj, after the await
FinishJson(self, resp) ==
    IF raise_for_status(resp) /= NoExc
    THEN Outcome(PyNone, raise_for_status(resp), self.access_token)
    ELSE Outcome(json_or_raw(resp), NoExc, self.access_token)

RECURSIVE JoinLines_KeepEmpty(_)
\* "\n".join over every line, the empty ones included
JoinLines_KeepEmpty(lines) ==
    IF lines = <<>> THEN ""
    ELSE IF Len(lines) = 1 THEN Head(lines)
    ELSE Head(lines) \o "\n" \o JoinLines_KeepEmpty(Tail(lines))

RECURSIVE JoinLines(_)
\* "\n".join(chunks) over the lines that are not empty
JoinLines(lines) ==
    IF lines = <<>> THEN ""
    ELSE IF Head(lines) = "" THEN JoinLines(Tail(lines))
    ELSE IF JoinLines(Tail(lines)) = "" THEN Head(lines)
    ELSE Head(lines) \o "\n" \o JoinLines(Tail(lines))

\* _post_json with stream=True, after the stream has ended
FinishStream(self, resp) ==
    IF raise_for_status(resp) /= NoExc
    THEN Outcome(PyNone, raise_for_status(resp), self.access_token)
    ELSE Outcome(PyDict("raw_stream" :> PyStr(JoinLines(resp.lines))), NoExc,
                 self.access_token)

\* the token scan in the opposite priority order
FirstToken_Reversed(payload, n) ==
    IF HasKey(payload, "accessToken") THEN payload.d["accessToken"]
    ELSE IF HasKey(payload, "token") THEN payload.d["token"]
    ELSE IF HasKey(payload, "access_token") THEN payload.d["access_token"]
    ELSE PyNone

RECURSIVE FirstToken(_, _)
\* for k in ("access_token", "token", "accessToken"): if k in payload: token = payload[k]; break
FirstToken(payload, n) ==
    IF n > Len(TokenKeys) THEN PyNone
    ELSE IF HasKey(payload, TokenKeys[n]) THEN payload.d[TokenKeys[n]]
    ELSE FirstToken(payload, n + 1)

\* login storing whatever the scan found, None included
FinishLogin_Unconditional(self, resp) ==
    IF raise_for_status(resp) /= NoExc
    THEN Outcome(PyNone, raise_for_status(resp), self.access_token)
    ELSE Outcome(json_or_raw(resp), NoExc,
                 IF json_or_raw(resp).t = "dict"
                 THEN IF HasKey(json_or_raw(resp), "access_token")
                      THEN json_or_raw(resp).d["access_token"]
                      ELSE IF HasKey(json_or_raw(resp), "token")
                      THEN json_or_raw(resp).d["token"]
                      ELSE IF HasKey(json_or_raw(resp), "accessToken")
                      THEN json_or_raw(resp).d["accessToken"]
                      ELSE PyNone
                 ELSE PyNone)

\* login taking the first of the three keys that holds a usable value
FinishLogin_FallThrough(self, resp) ==
    IF raise_for_status(resp) /= NoExc
    THEN Outcome(PyNone, raise_for_status(resp), self.access_token)
    ELSE Outcome(json_or_raw(resp), NoExc,
                 IF Truthy(GetOr(json_or_raw(resp).d, "access_token", PyNone))
                 THEN json_or_raw(resp).d["access_token"]
                 ELSE IF Truthy(GetOr(json_or_raw(resp).d, "token", PyNone))
                 THEN json_or_raw(resp).d["token"]
                 ELSE IF Truthy(GetOr(json_or_raw(resp).d, "accessToken", PyNone))
                 THEN json_or_raw(resp).d["accessToken"]
                 ELSE self.access_token)

\* login, after the await: the token is stored only when it is truthy
FinishLogin(self, resp) ==
    IF raise_for_status(resp) /= NoExc
    THEN Outcome(PyNone, raise_for_status(resp), self.access_token)
    ELSE Outcome(json_or_raw(resp), NoExc,
                 IF Truthy(FirstToken(json_or_raw(resp), 1))
                 THEN FirstToken(json_or_raw(resp), 1)
                 ELSE self.access_token)

(* ------------------------------------------------------------------ *)
(* call_tool (lightrag_mcp.py): the pure parts of the dispatcher        *)
(* ------------------------------------------------------------------ *)

\* JsonContent is never bound in lightrag_mcp.py, so the object is always
\* handed back as a text block holding json.dumps(obj); the block keeps the
\* object the text encodes
_as_json_content(obj) == [type |-> "text", enc |-> "json", text |-> "", obj |-> obj]

\* TextContent(type="text", text=...)
TextContent(text) == [type |-> "text", enc |-> "plain", text |-> text, obj |-> PyNone]

\* the fields of models.QueryRequest
QueryFields ==
    { "query", "mode", "only_need_context", "only_need_prompt", "response_type",
      "top_k", "chunk_top_k", "max_entity_tokens", "max_relation_tokens",
      "max_total_tokens", "conversation_history", "history_turns", "ids",
      "user_prompt", "enable_rerank" }

\* QueryRequest(**arguments): the message of the validation error, "" if none
QueryRequestError(a) ==
    IF "query" \notin DOMAIN a
        THEN "1 validation error for QueryRequest: query: Field required"
    ELSE IF a["query"].t /= "str"
        THEN "1 validation error for QueryRequest: query: Input should be a valid string"
    ELSE IF "mode" \in DOMAIN a /\ a["mode"].t /= "str"
        THEN "1 validation error for QueryRequest: mode: Input should be a valid string"
    ELSE IF "top_k" \in DOMAIN a /\ a["top_k"].t = "int"
            /\ a["top_k"].i < 1
        THEN "1 validation error for QueryRequest: top_k: Input should be greater than or equal to 1"
    ELSE ""

\* QueryRequest(**arguments).model_dump(exclude_unset=True)
model_dump(a) ==
    PyDict([k \in DOMAIN a \cap QueryFields |-> a[k]])

\* int(x): the exception it raises, NoExc when x converts
IntError(v) ==
    CASE v.t \in {"int", "bool"} -> NoExc
      [] v.t = "str" ->
            Raise("ValueError",
                  "invalid literal for int() with base 10: " \o Repr(v))
      [] OTHER ->
            Raise("TypeError",
                  "int() argument must be a string, a bytes-like object or a real number")

\* tools.list_tools(): the names of the catalog's descriptors, in catalog order
list_tools ==
    << "health", "auth_status", "auth_login", "documents_scan",
       "documents_upload_file", "documents_upload_files", "documents_insert_text",
       "documents_insert_texts", "documents_clear_all", "documents_list_statuses",
       "documents_pipeline_status", "documents_delete_by_ids",
       "documents_clear_cache", "documents_delete_entity",
       "documents_delete_relation", "documents_track_status", "documents_paginated",
       "documents_status_counts", "query", "query_stream", "graph_labels",
       "graphs_get", "graph_entity_exists", "graph_update_entity",
       "graph_update_relation", "ollama_version", "ollama_tags", "ollama_ps",
       "ollama_generate", "ollama_chat" >>

\* call_tool without its health branch
Branches_NoHealth ==
    { "auth_status", "auth_login", "documents_scan",
      "documents_upload_file", "documents_upload_files", "documents_insert_text",
      "documents_insert_texts", "documents_clear_all", "documents_list_statuses",
      "documents_pipeline_status", "documents_delete_by_ids",
      "documents_clear_cache", "documents_delete_entity",
      "documents_delete_relation", "documents_track_status", "documents_paginated",
      "documents_status_counts", "query", "query_stream", "graph_labels",
      "graphs_get", "graph_entity_exists", "graph_update_entity",
      "graph_update_relation", "ollama_version", "ollama_tags", "ollama_ps",
      "ollama_generate", "ollama_chat" }

\* the names call_tool has a branch for
Branches ==
    { "health", "auth_status", "auth_login", "documents_scan",
      "documents_upload_file", "documents_upload_files", "documents_insert_text",
      "documents_insert_texts", "documents_clear_all", "documents_list_statuses",
      "documents_pipeline_status", "documents_delete_by_ids",
      "documents_clear_cache", "documents_delete_entity",
      "documents_delete_relation", "documents_track_status", "documents_paginated",
      "documents_status_counts", "query", "query_stream", "graph_labels",
      "graphs_get", "graph_entity_exists", "graph_update_entity",
      "graph_update_relation", "ollama_version", "ollama_tags", "ollama_ps",
      "ollama_generate", "ollama_chat" }

\* if not x: raise ValueError(msg)
Required(a, k, msg) ==
    IF ~Truthy(Get(a, k)) THEN Raise("ValueError", msg) ELSE NoExc

\* the list check without its isinstance test
RequiredList_AnyType(a, k, msg) ==
    IF ~Truthy(Get(a, k)) THEN Raise("ValueError", msg) ELSE NoExc

\* if not x or not isinstance(x, list): raise ValueError(msg)
RequiredList(a, k, msg) ==
    IF ~Truthy(Get(a, k)) \/ Get(a, k).t /= "list"
    THEN Raise("ValueError", msg)
    ELSE NoExc

\* the first exception of a sequence of checks, NoExc if none raises
FirstExc(e1, e2) == IF e1 /= NoExc THEN e1 ELSE e2

\* the exception a branch raises before it calls the client, NoExc if none
Validate(n, a) ==
    CASE n = "auth_login" ->
            IF ~Truthy(Get(a, "username")) \/ ~Truthy(Get(a, "password"))
            THEN Raise("ValueError", "'username' and 'password' are required")
            ELSE NoExc
      [] n = "documents_upload_file" -> Required(a, "file_path", "'file_path' is required")
      [] n = "documents_upload_files" ->
            RequiredList(a, "file_paths", "'file_paths' must be a non-empty list")
      [] n = "documents_insert_text" -> Required(a, "text", "'text' is required")
      [] n = "documents_insert_texts" ->
            RequiredList(a, "texts", "'texts' must be a non-empty list of strings")
      [] n = "documents_delete_by_ids" ->
            RequiredList(a, "doc_ids", "'doc_ids' must be a non-empty list of strings")
      [] n = "documents_delete_entity" ->
            Required(a, "entity_name", "'entity_name' is required")
      [] n = "documents_delete_relation" ->
            IF ~Truthy(Get(a, "source_entity")) \/ ~Truthy(Get(a, "target_entity"))
            THEN Raise("ValueError", "'source_entity' and 'target_entity' are required")
            ELSE NoExc
      [] n = "documents_track_status" -> Required(a, "track_id", "'track_id' is required")
      [] n \in {"query", "query_stream"} ->
            IF QueryRequestError(a) /= ""
            THEN Raise("ValueError", "Invalid query arguments: " \o QueryRequestError(a))
            ELSE NoExc
      [] n = "graphs_get" ->
            FirstExc(Required(a, "label", "'label' is required"),
                     FirstExc(IntError(GetOr(a, "max_depth", PyInt(3))),
                              IntError(GetOr(a, "max_nodes", PyInt(1000)))))
      [] n = "graph_entity_exists" -> Required(a, "name", "'name' is required")
      [] n = "graph_update_entity" ->
            IF ~Truthy(Get(a, "entity_name")) \/ Get(a, "updated_data") = PyNone
            THEN Raise("ValueError", "'entity_name' and 'updated_data' are required")
            ELSE NoExc
      [] n = "graph_update_relation" ->
            IF ~Truthy(Get(a, "source_id")) \/ ~Truthy(Get(a, "target_id"))
               \/ Get(a, "updated_data") = PyNone
            THEN Raise("ValueError", "'source_id', 'target_id', 'updated_data' are required")
            ELSE NoExc
      [] n \in {"ollama_generate", "ollama_chat"} ->
            IF Get(a, "payload").t /= "dict"
            THEN Raise("ValueError", "'payload' (object) is required")
            ELSE NoExc
      [] n \in Branches -> NoExc
      [] OTHER -> Raise("ValueError", "Unknown tool: " \o n)

\* the client method a branch awaits once its arguments are accepted
\* (documents_upload_files starts one upload_file task per path instead)
ClientCall(self, n, a) ==
    CASE n = "health" -> health(self)
      [] n = "auth_status" -> auth_status(self)
      [] n = "auth_login" ->
            login(self, Get(a, "username"), Get(a, "password"), GetOr(a, "scope", PyStr("")))
      [] n = "documents_scan" -> documents_scan(self)
      [] n = "documents_upload_file" -> upload_file(self, Get(a, "file_path"))
      [] n = "documents_insert_text" ->
            insert_text(self, Get(a, "text"), Get(a, "file_source"))
      [] n = "documents_insert_texts" ->
            insert_texts(self, Get(a, "texts"), Get(a, "file_sources"))
      [] n = "documents_clear_all" -> documents_clear(self)
      [] n = "documents_list_statuses" -> documents_statuses(self)
      [] n = "documents_pipeline_status" -> pipeline_status(self)
      [] n = "documents_delete_by_ids" ->
            delete_document(self, Get(a, "doc_ids"), GetOr(a, "delete_file", PyBool(FALSE)))
      [] n = "documents_clear_cache" -> clear_cache(self)
      [] n = "documents_delete_entity" -> delete_entity(self, Get(a, "entity_name"))
      [] n = "documents_delete_relation" ->
            delete_relation(self, Get(a, "source_entity"), Get(a, "target_entity"))
      [] n = "documents_track_status" -> track_status(self, Get(a, "track_id"))
      [] n = "documents_paginated" -> documents_paginated(self, PyDict(a))
      [] n = "documents_status_counts" -> status_counts(self)
      [] n = "query" -> query(self, model_dump(a))
      [] n = "query_stream" -> query_stream(self, model_dump(a))
      [] n = "graph_labels" -> graph_labels(self)
      [] n = "graphs_get" ->
            graphs(self, Get(a, "label"), PyInt(GetOr(a, "max_depth", PyInt(3)).i),
                   PyInt(GetOr(a, "max_nodes", PyInt(1000)).i))
      [] n = "graph_entity_exists" -> entity_exists(self, Get(a, "name"))
      [] n = "graph_update_entity" ->
            update_entity(self, Get(a, "entity_name"), Get(a, "updated_data"),
                          GetOr(a, "allow_rename", PyBool(FALSE)))
      [] n = "graph_update_relation" ->
            update_relation(self, Get(a, "source_id"), Get(a, "target_id"),
                            Get(a, "updated_data"))
      [] n = "ollama_version" -> api_version(self)
      [] n = "ollama_tags" -> api_tags(self)
      [] n = "ollama_ps" -> api_ps(self)
      [] n = "ollama_generate" -> api_generate(self, Get(a, "payload"))
      [] n = "ollama_chat" -> api_chat(self, Get(a, "payload"))

\* what the awaited client method does with the response
Finish(self, n, resp) ==
    CASE n = "auth_login" -> FinishLogin(self, resp)
      [] n = "query_stream" -> FinishStream(self, resp)
      [] OTHER -> FinishJson(self, resp)

\* a branch's return statement: the blocks, or the exception building them raises
Blocks(b) == [blocks |-> b, exc |-> NoExc]

\* every branch handing {"result": v} to _as_json_content
ResultObj_ResultOnly(n, a, v) == PyDict([result |-> v])

\* the dict a branch hands to _as_json_content
ResultObj(n, a, v) ==
    CASE n = "documents_upload_file" ->
            PyDict([file |-> Get(a, "file_path"), result |-> v])
      [] n = "documents_track_status" ->
            PyDict([track_id |-> Get(a, "track_id"), result |-> v])
      [] n = "documents_paginated" -> PyDict([request |-> PyDict(a), result |-> v])
      [] n = "query_stream" ->
            PyDict([request |-> model_dump(a),
                    stream |-> IF v.t = "dict" THEN Get(v.d, "raw_stream")
                               ELSE PyStr(Str(v))])
      [] n = "graphs_get" -> PyDict([label |-> Get(a, "label"), result |-> v])
      [] n = "graph_entity_exists" -> PyDict([name |-> Get(a, "name"), result |-> v])
      [] n \in {"ollama_generate", "ollama_chat"} ->
            PyDict([request |-> Get(a, "payload"), result |-> v])
      [] OTHER -> PyDict([result |-> v])

\* the query branch: qres["response"] when present, else str(qres)
response_text(qres) ==
    IF HasKey(qres, "response") THEN qres.d["response"] ELSE PyStr(Str(qres))

\* the query branch returning the JSON wrapper like every other branch
Wrap_AlwaysJson(n, a, v) ==
    Blocks(<< _as_json_content(PyDict([request |-> model_dump(a), response |-> v])) >>)

\* what a branch returns once the client method has returned v
Wrap(n, a, v) ==
    IF n = "query"
    THEN IF response_text(v).t = "str"
         THEN Blocks(<< TextContent(response_text(v).s) >>)
         ELSE [blocks |-> <<>>,
               exc |-> Raise("ValidationError",
                             "1 validation error for TextContent: text: Input should be a valid string")]
    ELSE Blocks(<< _as_json_content(ResultObj(n, a, v)) >>)

\* call_tool with the except Exception clause left out: only HTTP status errors
\* are answered, any other exception leaves call_tool with no blocks
Handler_HttpOnly(e) ==
    IF e.type = "HTTPStatusError"
    THEN << TextContent("HTTP error: " \o ToString(e.status) \o " " \o e.reason) >>
    ELSE <<>>

\* call_tool answering an exception with its bare message
Handler_BareMessage(e) ==
    IF e.type = "HTTPStatusError"
    THEN << TextContent("HTTP error: " \o ToString(e.status) \o " " \o e.reason) >>
    ELSE << TextContent(e.msg) >>

\* call_tool answering an HTTP status error with the exception's own text
Handler_StrException(e) ==
    IF e.type = "HTTPStatusError"
    THEN << TextContent("HTTP error: " \o e.msg) >>
    ELSE << TextContent("Error: " \o e.msg) >>

\* the two except clauses of call_tool
Handler(e) ==
    IF e.type = "HTTPStatusError"
    THEN << TextContent("HTTP error: " \o ToString(e.status) \o " " \o e.reason) >>
    ELSE << TextContent("Error: " \o e.msg) >>

\* what call_tool returns when the try body ends with value v or exception e
Returned(n, a, v, e) ==
    IF e /= NoExc THEN Handler(e)
    ELSE IF Wrap(n, a, v).exc /= NoExc THEN Handler(Wrap(n, a, v).exc)
    ELSE Wrap(n, a, v).blocks

\* the exception the try body ends with, NoExc if it returns
TryExc(n, a, v, e) == IF e /= NoExc THEN e ELSE Wrap(n, a, v).exc

(* ------------------------------------------------------------------ *)
(* configuration (config.py)                                            *)
(* ------------------------------------------------------------------ *)

DEFAULT_TOOLS ==
    << "query", "documents_upload_file", "documents_insert_text",
       "documents_scan", "graphs_get" >>

\* no flag on the command line, no LIGHTRAG_* variable, no config.yaml
DefaultEnviron ==
    [argv_service_url |-> PyNone, argv_key |-> PyNone, argv_tools |-> PyNone,
     LIGHTRAG_BASE_URL |-> PyNone, LIGHTRAG_API_KEY |-> PyNone,
     LIGHTRAG_TOOLS |-> PyNone, yaml_tools |-> PyNone]

\* the process is started with its defaults, with or without an API key in
\* the environment
KeyEnvirons ==
    { DefaultEnviron, [DefaultEnviron EXCEPT !.LIGHTRAG_API_KEY = PyStr("secret")] }

\* the values tried for --tools and for LIGHTRAG_TOOLS
ToolsStrings == {"", "query", "health,query", " graphs_get ,,nope", "query, health"}

\* the values tried for the enabled_tools list _load_tools_from_yaml returns
YamlLists ==
    { PyNone, PyList(<<>>), PyList(<< PyStr("auth_login") >>),
      PyList(<< PyStr("query"), PyStr("health") >>) }

\* the values tried for --service-url and for LIGHTRAG_BASE_URL
UrlStrings == {"", "http://rag:9621/", "http://env:9621//"}

\* the values tried for --key and for LIGHTRAG_API_KEY
KeyStrings == {"", "secret", "cli-key"}

Environs ==
    [argv_service_url : {PyNone} \cup { PyStr(x) : x \in UrlStrings \ {"http://env:9621//"} },
     argv_key : {PyNone} \cup { PyStr(x) : x \in KeyStrings \ {"secret"} },
     argv_tools : {PyNone} \cup { PyStr(x) : x \in ToolsStrings },
     LIGHTRAG_BASE_URL : {PyNone} \cup { PyStr(x) : x \in UrlStrings \ {"http://rag:9621/"} },
     LIGHTRAG_API_KEY : {PyNone, PyStr("secret")},
     LIGHTRAG_TOOLS : {PyNone} \cup { PyStr(x) : x \in ToolsStrings },
     yaml_tools : YamlLists]

RECURSIVE join(_, _)
\* sep.join(q)
join(sep, q) ==
    IF q = <<>> THEN ""
    ELSE IF Len(q) = 1 THEN Head(q)
    ELSE Head(q) \o sep \o join(sep, Tail(q))

RECURSIVE split(_, _)
\* s.split(sep) for a one-character sep
split(s, sep) ==
    IF \A i \in 1..Len(s) : SubSeq(s, i, i) /= sep THEN << s >>
    ELSE LET i == CHOOSE i \in 1..Len(s) :
                    /\ SubSeq(s, i, i) = sep
                    /\ \A j \in 1..(i - 1) : SubSeq(s, j, j) /= sep
         IN << SubSeq(s, 1, i - 1) >> \o split(SubSeq(s, i + 1, Len(s)), sep)

RECURSIVE strip(_)
\* s.strip(): leading and trailing blanks removed
strip(s) ==
    IF Len(s) > 0 /\ SubSeq(s, 1, 1) = " " THEN strip(SubSeq(s, 2, Len(s)))
    ELSE IF Len(s) > 0 /\ SubSeq(s, Len(s), Len(s)) = " "
    THEN strip(SubSeq(s, 1, Len(s) - 1))
    ELSE s

\* resolve_config consulting config.yaml before LIGHTRAG_TOOLS
tools_source_YamlFirst ==
    IF environ.yaml_tools /= PyNone
    THEN join(",", [i \in DOMAIN environ.yaml_tools.l |-> environ.yaml_tools.l[i].s])
    ELSE IF Truthy(environ.LIGHTRAG_TOOLS) THEN environ.LIGHTRAG_TOOLS.s
    ELSE join(",", DEFAULT_TOOLS)

\* resolve_config: env_tools, else the YAML list, else DEFAULT_TOOLS
tools_source ==
    IF Truthy(environ.LIGHTRAG_TOOLS) THEN environ.LIGHTRAG_TOOLS.s
    ELSE IF environ.yaml_tools /= PyNone
    THEN join(",", [i \in DOMAIN environ.yaml_tools.l |-> environ.yaml_tools.l[i].s])
    ELSE join(",", DEFAULT_TOOLS)

\* args.tools: the --tools flag, tools_source when the flag is not given
args_tools ==
    IF environ.argv_tools /= PyNone THEN environ.argv_tools.s ELSE tools_source

RECURSIVE rstrip(_, _)
\* s.rstrip(ch): every trailing ch removed
rstrip(s, ch) ==
    IF Len(s) > 0 /\ SubSeq(s, Len(s), Len(s)) = ch
    THEN rstrip(SubSeq(s, 1, Len(s) - 1), ch)
    ELSE s

\* args.service_url: the --service-url flag, else env_base or the default
args_service_url ==
    IF environ.argv_service_url /= PyNone THEN environ.argv_service_url
    ELSE IF Truthy(environ.LIGHTRAG_BASE_URL) THEN environ.LIGHTRAG_BASE_URL
    ELSE PyStr(BaseUrl)

\* args.key: the --key flag, else env_key
args_key ==
    IF environ.argv_key /= PyNone THEN environ.argv_key ELSE environ.LIGHTRAG_API_KEY

\* resolve_config(): (base, key, enabled_tools)
resolve_config ==
    << rstrip(IF Truthy(args_service_url) THEN args_service_url.s ELSE BaseUrl, "/"),
       IF Truthy(args_key) THEN args_key ELSE PyNone,
       SelectSeq([i \in DOMAIN split(args_tools, ",") |-> strip(split(args_tools, ",")[i])],
                 LAMBDA t : t /= "") >>

\* list_tools_mcp(): return list_tools()
list_tools_mcp == list_tools

(* ------------------------------------------------------------------ *)
(* the calls the host makes                                             *)
(* ------------------------------------------------------------------ *)

\* every dict over some of the keys of V, each key holding one of its values
Dicts(V) ==
    { f \in UNION { [K -> UNION { V[k] : k \in DOMAIN V }] : K \in SUBSET DOMAIN V } :
        \A k \in DOMAIN f : f[k] \in V[k] }

RECURSIVE SeqsUpTo(_, _)
\* the non-empty sequences over S of length at most n
SeqsUpTo(S, n) ==
    IF n = 0 THEN {}
    ELSE { << x >> : x \in S } \cup SeqsUpTo(S, n - 1)
         \cup { Append(q, x) : q \in SeqsUpTo(S, n - 1), x \in S }

SomeObject == PyDict("model" :> PyStr("qwen"))

\* names the host may ask for that call_tool has no branch for
UnknownNames == {"nope", "Health"}

\* the argument objects tried for each tool
ArgsOf(n) ==
    CASE n = "auth_login" ->
            Dicts([username |-> {PyStr(""), PyStr("admin")},
                   password |-> {PyStr("secret")}])
      [] n = "documents_upload_file" ->
            Dicts([file_path |-> {PyStr("")} \cup { PyStr(p) : p \in Paths }])
      [] n = "documents_upload_files" ->
            Dicts([file_paths |->
                     {PyList(<<>>), PyStr("/a")}
                     \cup { PyList([i \in DOMAIN q |-> PyStr(q[i])]) :
                              q \in SeqsUpTo(Paths, MaxFiles) }])
      [] n = "documents_insert_text" ->
            Dicts([text |-> {PyStr(""), PyStr("hello")},
                   file_source |-> {PyStr("notes.txt")}])
      [] n = "documents_insert_texts" ->
            Dicts([texts |-> {PyList(<<>>), PyStr("a"), PyList(<< PyStr("a") >>)}])
      [] n = "documents_delete_by_ids" ->
            Dicts([doc_ids |-> {PyList(<<>>), PyStr("doc_1"), PyList(<< PyStr("doc_1") >>)},
                   delete_file |-> {PyBool(TRUE)}])
      [] n = "documents_delete_entity" ->
            Dicts([entity_name |-> {PyStr(""), PyStr("Apple")}])
      [] n = "documents_delete_relation" ->
            Dicts([source_entity |-> {PyStr("A")},
                   target_entity |-> {PyStr(""), PyStr("B")}])
      [] n = "documents_track_status" ->
            Dicts([track_id |-> {PyStr(""), PyStr("upload_1")}])
      [] n = "documents_paginated" -> Dicts([page |-> {PyInt(1)}])
      [] n \in {"query", "query_stream"} ->
            Dicts([query |-> {PyStr(""), PyStr("ping"), PyInt(5)},
                   top_k |-> {PyInt(0), PyInt(5)}])
      [] n = "graphs_get" ->
            Dicts([label |-> {PyStr(""), PyStr("OpenAI")},
                   max_depth |-> {PyInt(2), PyStr("deep")}])
      [] n = "graph_entity_exists" -> Dicts([name |-> {PyStr(""), PyStr("Apple")}])
      [] n = "graph_update_entity" ->
            Dicts([entity_name |-> {PyStr("Apple")}, updated_data |-> {SomeObject}])
      [] n = "graph_update_relation" ->
            Dicts([source_id |-> {PyStr("e1")}, target_id |-> {PyStr(""), PyStr("e2")},
                   updated_data |-> {SomeObject}])
      [] n \in {"ollama_generate", "ollama_chat"} ->
            Dicts([payload |-> {SomeObject, PyStr("qwen")}])
      [] n \in UnknownNames -> Dicts([query |-> {PyStr("ping")}])
      [] OTHER -> { <<>> }

(* ------------------------------------------------------------------ *)
(* the dispatcher as a state machine                                    *)
(* ------------------------------------------------------------------ *)

\* the token a login response carries: the value under the first of the three
\* keys its JSON object holds, when the status is 2xx and the value is not empty
ResponseToken(resp) ==
    IF resp.kind /= "http" \/ resp.status < 200 \/ resp.status > 299
       \/ ~resp.isjson \/ resp.json.t /= "dict"
    THEN PyNone
    ELSE LET present == { n \in 1..3 : TokenKeys[n] \in DOMAIN resp.json.d }
             first == CHOOSE n \in present : \A m \in present : n <= m
         IN IF present = {} THEN PyNone
            ELSE IF resp.json.d[TokenKeys[first]] \in {PyNone, PyStr("")} THEN PyNone
            ELSE resp.json.d[TokenKeys[first]]

\* the most httpx clients that are counted one by one
MaxClients == 2

\* self.client = httpx.AsyncClient(timeout=self.timeout): one more client is
\* open; nothing in client.py or lightrag_mcp.py closes a client.  The count
\* stops at MaxClients, which stands for that many or more.
AsyncClient(n) == IF n < MaxClients THEN n + 1 ELSE MaxClients

\* the client object in use
Client == [api_key |-> api_key, access_token |-> access_token]

\* client = LightRagHttpClient(): the key from resolve_config, no token
LightRagHttpClient == [api_key |-> api_key, access_token |-> PyNone]

NoTask == [st |-> "pending", path |-> PyNone, v |-> PyNone, exc |-> NoExc, ord |-> 0]

\* tasks = [asyncio.create_task(client.upload_file(p, want_obj=True)) for p in fps]
create_tasks(fps) == [i \in DOMAIN fps |-> [NoTask EXCEPT !.path = fps[i]]]

InFlight == { i \in DOMAIN tasks : tasks[i].st = "inflight" }

Pending == { i \in DOMAIN tasks : tasks[i].st = "pending" }

Failed == { i \in DOMAIN tasks : tasks[i].st = "raised" }

\* the task whose exception asyncio.gather propagates: the first one to raise
FirstRaised == CHOOSE i \in Failed : \A j \in Failed : tasks[i].ord <= tasks[j].ord

\* results collected as the tasks complete (asyncio.as_completed) instead
gather_AsCompleted ==
    [i \in DOMAIN tasks |-> tasks[CHOOSE j \in DOMAIN tasks : tasks[j].ord = i].v]

\* results = await asyncio.gather(*tasks): one entry per task, in task order
gather == [i \in DOMAIN tasks |-> tasks[i].v]

\* the server between two calls, in the long run: it has served MaxClients
\* calls or more
Init ==
    /\ environ \in KeyEnvirons
    /\ api_key = resolve_config[2]
    /\ files \in SUBSET Paths
    /\ pc = "idle"
    /\ name = ""
    /\ arguments = <<>>
    /\ access_token = PyNone
    /\ sent = <<>>
    /\ r = NoResponse
    /\ tasks = <<>>
    /\ ndone = 0
    /\ ret = PyNone
    /\ raised = NoExc
    /\ result = <<>>
    /\ bearerToken = PyNone
    /\ enabled_tools = <<>>
    /\ advertised = <<>>
    /\ open_clients = MaxClients

\* call_tool with each branch's checks moved after its client call: the request
\* goes out first, the arguments are looked at when the answer is in
CallTool_CheckLate(n, a) ==
    /\ pc = "idle"
    /\ InFlight = {}
    /\ name' = n
    /\ arguments' = a
    /\ access_token' = LightRagHttpClient.access_token
    /\ r' = NoResponse
    /\ tasks' = <<>>
    /\ ndone' = 0
    /\ ret' = PyNone
    /\ open_clients' = AsyncClient(open_clients)
    /\ UNCHANGED << environ, enabled_tools, advertised, api_key, files, bearerToken >>
    /\ IF Validate(n, a) /= NoExc
       THEN /\ raised' = Validate(n, a)
            /\ result' = Handler(Validate(n, a))
            /\ pc' = "done"
            /\ sent' = IF n \in {"documents_delete_entity", "documents_track_status",
                                 "graph_entity_exists"}
                       THEN << ClientCall(LightRagHttpClient, n, a).req >>
                       ELSE <<>>
       ELSE /\ n \notin {"documents_upload_files", "documents_upload_file"}
            /\ sent' = << ClientCall(LightRagHttpClient, n, a).req >>
            /\ raised' = NoExc
            /\ result' = <<>>
            /\ pc' = "wait"

\* call_tool(name, arguments) up to its first await (or to its return when
\* the arguments are rejected or no request is needed)
CallTool(n, a) ==
    /\ pc = "idle"
    /\ InFlight = {}
    /\ name' = n
    /\ arguments' = a
    /\ access_token' = LightRagHttpClient.access_token
    /\ r' = NoResponse
    /\ open_clients' = AsyncClient(open_clients)
    /\ UNCHANGED << environ, enabled_tools, advertised, api_key, files, bearerToken >>
    /\ IF Validate(n, a) /= NoExc
       THEN /\ raised' = Validate(n, a)
            /\ result' = Handler(Validate(n, a))
            /\ pc' = "done"
            /\ sent' = <<>>
            /\ ret' = PyNone
            /\ tasks' = <<>>
            /\ ndone' = 0
       ELSE IF n = "documents_upload_files"
       THEN /\ tasks' = create_tasks(Get(a, "file_paths").l)
            /\ ndone' = 0
            /\ pc' = "gather"
            /\ sent' = <<>>
            /\ ret' = PyNone
            /\ raised' = NoExc
            /\ result' = <<>>
       ELSE /\ tasks' = <<>>
            /\ ndone' = 0
            /\ IF ClientCall(LightRagHttpClient, n, a).kind = "return"
               THEN /\ ret' = ClientCall(LightRagHttpClient, n, a).ret
                    /\ raised' = TryExc(n, a, ret', NoExc)
                    /\ result' = Returned(n, a, ret', NoExc)
                    /\ sent' = <<>>
                    /\ pc' = "done"
               ELSE /\ sent' = << ClientCall(LightRagHttpClient, n, a).req >>
                    /\ ret' = PyNone
                    /\ raised' = NoExc
                    /\ result' = <<>>
                    /\ pc' = "wait"

\* the awaited request is answered (or fails): the client method finishes and
\* call_tool returns its blocks
Respond(resp) ==
    /\ pc = "wait"
    /\ resp \in Responses(sent[Len(sent)])
    /\ r' = resp
    /\ access_token' = Finish(Client, name, resp).token
    /\ ret' = Finish(Client, name, resp).ret
    /\ raised' = TryExc(name, arguments, ret', Finish(Client, name, resp).exc)
    /\ result' = Returned(name, arguments, ret', Finish(Client, name, resp).exc)
    /\ bearerToken' = IF name = "auth_login" /\ ResponseToken(resp) /= PyNone
                      THEN ResponseToken(resp) ELSE bearerToken
    /\ pc' = "done"
    /\ UNCHANGED << open_clients, environ, enabled_tools, advertised, api_key, files, name, arguments, sent, tasks, ndone >>

\* an upload task runs up to its first await: the file check, then the request.
\* The event loop starts the tasks in the order they were created.
TaskStart(i) ==
    /\ pc = "gather"
    /\ i \in Pending
    /\ \A j \in Pending : i <= j
    /\ IF upload_file(Client, tasks[i].path).kind = "return"
       THEN /\ tasks' = [tasks EXCEPT ![i].st = "done",
                                      ![i].v = upload_file(Client, tasks[i].path).ret,
                                      ![i].ord = ndone + 1]
            /\ ndone' = ndone + 1
            /\ sent' = sent
       ELSE /\ tasks' = [tasks EXCEPT ![i].st = "inflight"]
            /\ sent' = Append(sent, upload_file(Client, tasks[i].path).req)
            /\ ndone' = ndone
    /\ UNCHANGED << open_clients, environ, enabled_tools, advertised, api_key, files, pc, name, arguments, access_token, r, ret,
                    raised, result, bearerToken >>

\* the answers tried on an upload
UploadResponses ==
    { NoResponse,
      TextResponse(404, "Not Found", "missing"),
      JsonResponse(200, "OK", PyDict("track_id" :> PyStr("t1"))),
      JsonResponse(200, "OK", PyDict("track_id" :> PyStr("t2"))),
      TextResponse(200, "OK", "plain text") }

\* the upload of task i is answered (or fails): the task finishes.  A task whose
\* call_tool has already returned still runs to its end; nobody reads its result.
TaskRespond(i, resp) ==
    /\ i \in InFlight
    /\ Pending = {}
    /\ resp \in UploadResponses
    /\ r' = resp
    /\ tasks' = [tasks EXCEPT
                   ![i].st = IF FinishJson(Client, resp).exc /= NoExc
                             THEN "raised" ELSE "done",
                   ![i].v = FinishJson(Client, resp).ret,
                   ![i].exc = FinishJson(Client, resp).exc,
                   ![i].ord = ndone + 1]
    /\ ndone' = ndone + 1
    /\ UNCHANGED << open_clients, environ, enabled_tools, advertised, api_key, files, pc, name, arguments, access_token, sent, ret,
                    raised, result, bearerToken >>

\* asyncio.gather returns: every task has returned a value
GatherReturn ==
    /\ pc = "gather"
    /\ \A i \in DOMAIN tasks : tasks[i].st = "done"
    /\ ret' = PyList(gather)
    /\ raised' = NoExc
    /\ result' = << _as_json_content(PyDict([results |-> ret'])) >>
    /\ pc' = "done"
    /\ UNCHANGED << open_clients, environ, enabled_tools, advertised, api_key, files, name, arguments, access_token, sent, r, tasks,
                    ndone, bearerToken >>

\* asyncio.gather raises: a task has raised; the tasks still running are left
\* running and call_tool's except clause answers
GatherRaise ==
    /\ pc = "gather"
    /\ Pending = {}
    /\ Failed /= {}
    /\ raised' = tasks[FirstRaised].exc
    /\ result' = Handler(tasks[FirstRaised].exc)
    /\ ret' = PyNone
    /\ pc' = "done"
    /\ UNCHANGED << open_clients, environ, enabled_tools, advertised, api_key, files, name, arguments, access_token, sent, r, tasks,
                    ndone, bearerToken >>

\* the host has the blocks; the frame of call_tool, its client included, is gone
ReturnToHost ==
    /\ pc = "done"
    /\ pc' = "idle"
    /\ name' = ""
    /\ arguments' = <<>>
    /\ access_token' = PyNone
    /\ sent' = <<>>
    /\ r' = NoResponse
    /\ ret' = PyNone
    /\ raised' = NoExc
    /\ result' = <<>>
    /\ tasks' = IF InFlight = {} THEN <<>> ELSE tasks
    /\ ndone' = IF InFlight = {} THEN 0 ELSE ndone
    /\ UNCHANGED << open_clients, environ, enabled_tools, advertised, api_key, files, bearerToken >>

Next ==
    \/ \E n \in Branches \cup UnknownNames : \E a \in ArgsOf(n) : CallTool(n, a)
    \/ \E resp \in ErrorResponses \cup LoginResponses \cup OkResponses
                   \cup StreamResponses \cup {NoResponse} : Respond(resp)
    \/ \E i \in DOMAIN tasks : TaskStart(i)
    \/ \E i \in DOMAIN tasks : \E resp \in UploadResponses : TaskRespond(i, resp)
    \/ GatherReturn
    \/ GatherRaise
    \/ ReturnToHost

Spec == Init /\ [][Next]_vars

(* ------------------------------------------------------------------ *)
(* one client object kept between invocations                          *)
(* ------------------------------------------------------------------ *)

\* a method of the kept client is invoked with parameters the dispatcher
\* would pass it, and runs up to its await (or to its return)
ClientInvoke(n, a) ==
    /\ pc = "idle"
    /\ n \in Branches \ {"documents_upload_files"}
    /\ Validate(n, a) = NoExc
    /\ name' = n
    /\ arguments' = a
    /\ r' = NoResponse
    /\ raised' = NoExc
    /\ IF ClientCall(Client, n, a).kind = "return"
       THEN /\ ret' = ClientCall(Client, n, a).ret
            /\ sent' = <<>>
            /\ pc' = "done"
       ELSE /\ sent' = << ClientCall(Client, n, a).req >>
            /\ ret' = PyNone
            /\ pc' = "wait"
    /\ UNCHANGED << open_clients, environ, enabled_tools, advertised, api_key, files, access_token, tasks, ndone, result, bearerToken >>

\* call_tool's branch raises on its arguments before any method of the client
\* is called
ClientReject(n, a) ==
    /\ pc = "idle"
    /\ n \in Branches \ {"documents_upload_files"}
    /\ Validate(n, a) /= NoExc
    /\ name' = n
    /\ arguments' = a
    /\ r' = NoResponse
    /\ raised' = Validate(n, a)
    /\ ret' = PyNone
    /\ sent' = <<>>
    /\ pc' = "done"
    /\ UNCHANGED << open_clients, environ, enabled_tools, advertised, api_key, files, access_token, tasks, ndone, result, bearerToken >>

\* a client that answers a 401 by sending the request once more
ClientRespond_Retry(resp) ==
    /\ pc = "wait"
    /\ resp \in Responses(sent[Len(sent)])
    /\ r' = resp
    /\ access_token' = access_token
    /\ IF resp.kind = "http" /\ resp.status = 401 /\ Len(sent) = 1
       THEN /\ sent' = Append(sent, sent[1])
            /\ pc' = "wait"
            /\ UNCHANGED << ret, raised >>
       ELSE /\ sent' = sent
            /\ pc' = "done"
            /\ ret' = Finish(Client, name, resp).ret
            /\ raised' = Finish(Client, name, resp).exc
    /\ UNCHANGED << open_clients, environ, enabled_tools, advertised, api_key, files, name,
                    arguments, tasks, ndone, result, bearerToken >>

\* the awaited request is answered (or fails) and the method returns or raises
ClientRespond(resp) ==
    /\ pc = "wait"
    /\ resp \in Responses(sent[Len(sent)])
    /\ r' = resp
    /\ access_token' = Finish(Client, name, resp).token
    /\ ret' = Finish(Client, name, resp).ret
    /\ raised' = Finish(Client, name, resp).exc
    /\ bearerToken' = IF name = "auth_login" /\ ResponseToken(resp) /= PyNone
                      THEN ResponseToken(resp) ELSE bearerToken
    /\ pc' = "done"
    /\ UNCHANGED << open_clients, environ, enabled_tools, advertised, api_key, files, name, arguments, sent, tasks, ndone, result >>

\* the caller has the value; the client object stays
ClientReturn ==
    /\ pc = "done"
    /\ pc' = "idle"
    /\ name' = ""
    /\ arguments' = <<>>
    /\ sent' = <<>>
    /\ r' = NoResponse
    /\ ret' = PyNone
    /\ raised' = NoExc
    /\ UNCHANGED << open_clients, environ, enabled_tools, advertised, api_key, files, access_token, tasks, ndone, result, bearerToken >>

ClientNext ==
    \/ \E n \in Branches : \E a \in ArgsOf(n) : ClientInvoke(n, a)
    \/ \E n \in Branches : \E a \in ArgsOf(n) : ClientReject(n, a)
    \/ \E resp \in ErrorResponses \cup LoginResponses \cup OkResponses
                   \cup StreamResponses \cup {NoResponse} : ClientRespond(resp)
    \/ ClientReturn

ClientSpec == Init /\ [][ClientNext]_vars

(* ------------------------------------------------------------------ *)
(* properties                                                           *)
(* ------------------------------------------------------------------ *)

\* the invocation in progress has issued requests and awaits their answers
Awaiting == pc \in {"wait", "gather"}

\* the blocks are a single plain text block
OneTextBlock(b) == Len(b) = 1 /\ b[1].type = "text" /\ b[1].enc = "plain"

\* text starts with prefix
StartsWith(text, prefix) ==
    Len(text) >= Len(prefix) /\ SubSeq(text, 1, Len(prefix)) = prefix

\* the results list of the block documents_upload_files returns
ResultsOf(b) == b[1].obj.d["results"].l

\* C1: once a login response has carried a token, every request a later
\* invocation issues carries Authorization: Bearer <that token> (until a later
\* login carries another token)
C1_LaterRequestsCarryToken ==
    (Awaiting /\ bearerToken /= PyNone) =>
        \A k \in DOMAIN sent :
            /\ "Authorization" \in DOMAIN sent[k].headers
            /\ sent[k].headers["Authorization"] = "Bearer " \o Str(bearerToken)

\* C2: whatever the tool, the arguments and the backend's answer, call_tool
\* returns at least one block, and exactly one plain text block whenever its
\* try body ended with an exception
C2_AlwaysBlocks ==
    pc = "done" =>
        /\ Len(result) >= 1
        /\ raised /= NoExc => OneTextBlock(result)

C2_Witness ==
    /\ pc = "done"
    /\ raised.type = "ConnectError"
    /\ OneTextBlock(result)
    /\ result[1].text = "Error: All connection attempts failed"

\* C3: documents_upload_files never answers a failed upload with a single
\* error response: it returns one entry per path, the entry of a failed upload
\* holding an error field and every other entry its own upload result
C3_PartialFailure ==
    (pc = "done" /\ name = "documents_upload_files" /\ tasks /= <<>>) =>
        /\ Len(result) = 1
        /\ result[1].enc = "json"
        /\ HasKey(result[1].obj, "results")
        /\ Len(ResultsOf(result)) = Len(tasks)
        /\ \A i \in DOMAIN tasks :
              /\ tasks[i].st = "raised" => HasKey(ResultsOf(result)[i], "error")
              /\ tasks[i].st = "done" => ResultsOf(result)[i] = tasks[i].v

\* C4: when documents_upload_files returns, every upload it started has
\* completed, with success or failure
C4_ReturnsAfterAllUploads ==
    (pc = "done" /\ name = "documents_upload_files") => InFlight = {}

\* the entry documents_upload_files owes to path p whose upload was answered
\* (or not) as task t records
EntryFor(p, t) ==
    IF p.s \notin files
    THEN PyDict("error" :> PyStr("File not found: " \o p.s))
    ELSE t.v

\* C5: when documents_upload_files succeeds its results list has one entry per
\* path of file_paths and entry i is the result of uploading file_paths[i],
\* in whatever order the uploads completed
C5_ResultsInInputOrder ==
    (pc = "done" /\ name = "documents_upload_files" /\ raised = NoExc) =>
        /\ Len(ResultsOf(result)) = Len(arguments["file_paths"].l)
        /\ \A i \in DOMAIN ResultsOf(result) :
              /\ tasks[i].path = arguments["file_paths"].l[i]
              /\ ResultsOf(result)[i] = EntryFor(arguments["file_paths"].l[i], tasks[i])

C5_Witness ==
    /\ pc = "done"
    /\ name = "documents_upload_files"
    /\ raised = NoExc
    /\ Len(tasks) = 2
    /\ tasks[2].ord < tasks[1].ord
    /\ ResultsOf(result)[1] = PyDict("track_id" :> PyStr("t1"))
    /\ ResultsOf(result)[2] = PyDict("track_id" :> PyStr("t2"))

\* the exception is one the branch raised over its arguments or over the name
ArgumentError(e) == e.type \in {"ValueError", "TypeError"}

\* C6: an invocation that ends in an argument-validation error or in an
\* unknown-tool error has issued no HTTP request
C6_NoRequestBeforeValidation ==
    (pc = "done" /\ ArgumentError(raised)) => sent = <<>>

C6_Witness ==
    /\ pc = "done"
    /\ name = "graphs_get"
    /\ Get(arguments, "label") = PyStr("OpenAI")
    /\ Get(arguments, "max_depth") = PyStr("deep")
    /\ raised.type = "ValueError"
    /\ sent = <<>>
    /\ result = << TextContent("Error: invalid literal for int() with base 10: 'deep'") >>

\* the value is missing, is not a list, or is an empty list
EmptyOrNotList(v) == v.t /= "list" \/ v.l = <<>>

\* query or query_stream called with the empty string as query
EmptyQuery(n, a) == n \in {"query", "query_stream"} /\ Get(a, "query") = PyStr("")

\* the calls whose required argument is missing or empty
EmptyArgument(n, a) ==
    \/ n \in {"query", "query_stream"} /\ Get(a, "query") \in {PyNone, PyStr("")}
    \/ n = "documents_upload_file" /\ Get(a, "file_path") = PyStr("")
    \/ n = "documents_upload_files" /\ EmptyOrNotList(Get(a, "file_paths"))
    \/ n = "documents_insert_texts" /\ EmptyOrNotList(Get(a, "texts"))
    \/ n = "documents_delete_by_ids" /\ EmptyOrNotList(Get(a, "doc_ids"))

\* the invocation has returned the single text block "Error: <message>" and
\* has sent nothing
Rejected ==
    /\ pc = "done"
    /\ sent = <<>>
    /\ OneTextBlock(result)
    /\ StartsWith(result[1].text, "Error: ")

\* C7 as stated: every call whose required argument is missing or empty,
\* the empty-string query included, is rejected with nothing sent
C7_RejectsEmpty ==
    (pc /= "idle" /\ EmptyArgument(name, arguments)) => Rejected

\* C7: a missing query, an empty file_path and an empty or non-list batch
\* argument are rejected with the single text block "Error: <message>" and
\* nothing sent; an empty-string query is not rejected for being empty: with
\* its other fields valid the request is posted with query ""
C7_RejectsEmptyButQuery ==
    /\ (pc /= "idle" /\ EmptyArgument(name, arguments) /\ ~EmptyQuery(name, arguments))
          => Rejected
    /\ (pc /= "idle" /\ EmptyQuery(name, arguments)
          /\ ("top_k" \in DOMAIN arguments => arguments["top_k"].i >= 1))
          => /\ Len(sent) = 1
             /\ sent[1].verb = "POST"
             /\ sent[1].body.d["query"] = PyStr("")

C7_Witness ==
    /\ pc = "wait"
    /\ name = "query"
    /\ arguments = [query |-> PyStr("")]
    /\ Len(sent) = 1
    /\ sent[1].url = BaseUrl \o "/query"
    /\ sent[1].body = PyDict([query |-> PyStr("")])

\* the token keys the body of a response holds, by their rank in the priority
\* order access_token, token, accessToken
PresentKeys(resp) ==
    IF resp.isjson /\ resp.json.t = "dict"
    THEN { n \in 1..3 : TokenKeys[n] \in DOMAIN resp.json.d }
    ELSE {}

\* the value under the first key present
FirstPresent(resp) ==
    resp.json.d[TokenKeys[CHOOSE n \in PresentKeys(resp) : \A m \in PresentKeys(resp) : n <= m]]

\* a login has just been answered with a 2xx status
LoginAnswered2xx ==
    /\ pc = "wait" /\ name = "auth_login" /\ pc' = "done"
    /\ r'.kind = "http" /\ r'.status \in 200..299

\* C8 as stated: after a successful login the stored token is the value of
\* the first key present, whatever that value is
C8_StoresFirstPresent ==
    (pc = "done" /\ name = "auth_login" /\ raised = NoExc /\ PresentKeys(r) /= {})
        => access_token = FirstPresent(r)

\* C8: a successful login whose body holds a token key stores the value of
\* the first key present in the order access_token, token, accessToken when
\* that value is not empty; when it is empty or null nothing is stored and
\* the keys after it are not consulted
C8_StoresFirstPresentNonEmpty ==
    [][(LoginAnswered2xx /\ PresentKeys(r') /= {}) =>
          access_token' = IF FirstPresent(r') \in {PyNone, PyStr("")}
                          THEN access_token
                          ELSE FirstPresent(r')]_vars

C8_Witness ==
    /\ pc = "done"
    /\ name = "auth_login"
    /\ raised = NoExc
    /\ r = JsonResponse(200, "OK", PyDict([token |-> PyStr("abc"), access_token |-> PyStr("xyz")]))
    /\ access_token = PyStr("xyz")

\* C9: a login answered 2xx with a body that holds none of the three keys
\* (a body that is not JSON or not an object included) returns the body and
\* leaves the stored token as it was
C9_NoTokenKeyNoChange ==
    [][(LoginAnswered2xx /\ PresentKeys(r') = {}) =>
          /\ raised' = NoExc
          /\ access_token' = access_token
          /\ ret' = json_or_raw(r')]_vars

C9_Witness ==
    /\ pc = "done"
    /\ name = "auth_login"
    /\ raised = NoExc
    /\ r = TextResponse(200, "OK", "plain text")
    /\ ret = PyDict("raw" :> PyStr("plain text"))
    /\ access_token = PyStr("xyz")

\* C10: a name call_tool has no branch for is answered with the single text
\* block "Error: Unknown tool: <name>", whatever the arguments
C10_UnknownTool ==
    (pc = "done" /\ name \notin Branches) =>
        result = << TextContent("Error: Unknown tool: " \o name) >>

C10_Witness ==
    /\ pc = "done"
    /\ name = "Health"
    /\ arguments = [query |-> PyStr("ping")]
    /\ result = << TextContent("Error: Unknown tool: Health") >>

\* the response is a non-2xx answer of the backend
Non2xx(resp) == resp.kind = "http" /\ ~(resp.status \in 200..299)

\* the single text block "HTTP error: <status> <reason>"
HttpErrorBlock(status, reason) ==
    << TextContent("HTTP error: " \o ToString(status) \o " " \o reason) >>

\* C11: a tool whose request the backend answers with a non-2xx status returns
\* exactly the one text block "HTTP error: <status> <reason>" (for
\* documents_upload_files: the status of the upload whose failure ended the
\* call); a call ended by any other failure returns one text block starting
\* with "Error: "
C11_HttpErrorText ==
    pc = "done" =>
        /\ (name /= "documents_upload_files" /\ Non2xx(r))
              => result = HttpErrorBlock(r.status, r.reason)
        /\ raised.type = "HTTPStatusError"
              => result = HttpErrorBlock(raised.status, raised.reason)
        /\ (raised /= NoExc /\ raised.type /= "HTTPStatusError")
              => OneTextBlock(result) /\ StartsWith(result[1].text, "Error: ")

C11_Witness ==
    /\ pc = "done"
    /\ name = "health"
    /\ sent[1].verb = "GET"
    /\ r = TextResponse(404, "Not Found", "missing")
    /\ result = << TextContent("HTTP error: 404 Not Found") >>

\* documents_upload_file is called with a path that names no regular file
MissingFile ==
    /\ pc /= "idle"
    /\ name = "documents_upload_file"
    /\ Truthy(Get(arguments, "file_path"))
    /\ Get(arguments, "file_path").s \notin files

\* C12 as stated: documents_upload_file with a path that names no regular file
\* sends nothing and the JSON payload it returns is {"error": "File not found: <path>"}
C12_NotFoundPayload ==
    MissingFile =>
        /\ pc = "done"
        /\ sent = <<>>
        /\ Len(result) = 1
        /\ result[1].obj =
             PyDict("error" :> PyStr("File not found: " \o Get(arguments, "file_path").s))

\* C12: documents_upload_file with a path that names no regular file sends
\* nothing and returns the one JSON payload
\* {"file": <path>, "result": {"error": "File not found: <path>"}}
C12_NotFoundWrapped ==
    MissingFile =>
        /\ pc = "done"
        /\ sent = <<>>
        /\ raised = NoExc
        /\ Len(result) = 1
        /\ result[1].enc = "json"
        /\ result[1].obj =
             PyDict([file |-> Get(arguments, "file_path"),
                     result |-> PyDict("error" :> PyStr("File not found: "
                                           \o Get(arguments, "file_path").s))])

C12_Witness ==
    /\ pc = "done"
    /\ name = "documents_upload_file"
    /\ arguments = [file_path |-> PyStr("/a")]
    /\ "/a" \notin files
    /\ "/b" \in files
    /\ sent = <<>>
    /\ result[1].obj = PyDict([file |-> PyStr("/a"),
                               result |-> PyDict("error" :> PyStr("File not found: /a"))])

RECURSIVE Concat(_, _)
\* the strings of q joined with sep
Concat(q, sep) ==
    IF Len(q) = 0 THEN ""
    ELSE IF Len(q) = 1 THEN q[1]
    ELSE Concat(SubSeq(q, 1, Len(q) - 1), sep) \o sep \o q[Len(q)]

\* C14: a query_stream that succeeds returns one JSON block {request, stream}:
\* request is the validated request that was posted to the backend and stream
\* is the text of the stream's non-empty lines joined with newlines
C14_StreamBlock ==
    (pc = "done" /\ name = "query_stream" /\ raised = NoExc) =>
        /\ Len(result) = 1
        /\ result[1].enc = "json"
        /\ Len(sent) = 1
        /\ sent[1].url = BaseUrl \o "/query/stream"
        /\ result[1].obj =
             PyDict([request |-> sent[1].body,
                     stream |-> PyStr(Concat(SelectSeq(r.lines, LAMBDA x : x /= ""), "\n"))])
        /\ \A k \in DOMAIN sent[1].body.d :
              k \in DOMAIN arguments /\ sent[1].body.d[k] = arguments[k]

C14_Witness ==
    /\ pc = "done"
    /\ name = "query_stream"
    /\ arguments = [query |-> PyStr("ping"), top_k |-> PyInt(5)]
    /\ r = StreamResponse(200, "OK", << "a", "", "b" >>)
    /\ result = << _as_json_content(PyDict([request |-> PyDict([query |-> PyStr("ping"),
                                                                  top_k |-> PyInt(5)]),
                                            stream |-> PyStr("a\nb")])) >>

\* the names of the catalog
CatalogNames == { list_tools[i] : i \in DOMAIN list_tools }

\* C15: the names list_tools returns are the names call_tool has a branch
\* for: each catalog name appears once, a call of a catalog name never ends in
\* the Unknown tool error, and a call of any other name does
C15_CatalogMatchesBranches ==
    /\ CatalogNames = Branches
    /\ Cardinality(CatalogNames) = Len(list_tools)
    /\ pc = "done" =>
          (name \in CatalogNames <=> raised /= Raise("ValueError", "Unknown tool: " \o name))

C15_Witness ==
    /\ pc = "done"
    /\ name = list_tools[Len(list_tools)]
    /\ Len(list_tools) = 30
    /\ raised = NoExc
    /\ result[1].enc = "json"

(* ------------------------------------------------------------------ *)
(* the catalog the host is shown                                        *)
(* ------------------------------------------------------------------ *)

ConfigInit ==
    /\ environ \in Environs
    /\ api_key = resolve_config[2]
    /\ files = {}
    /\ pc = "idle"
    /\ name = ""
    /\ arguments = <<>>
    /\ access_token = PyNone
    /\ sent = <<>>
    /\ r = NoResponse
    /\ tasks = <<>>
    /\ ndone = 0
    /\ ret = PyNone
    /\ raised = NoExc
    /\ result = <<>>
    /\ bearerToken = PyNone
    /\ enabled_tools = <<>>
    /\ advertised = <<>>
    /\ open_clients = 0

\* a call of resolve_config(): it returns (base, key, enabled_tools)
ResolveConfig ==
    /\ ret' = PyList(<< PyStr(resolve_config[1]), resolve_config[2],
                        PyList([i \in DOMAIN resolve_config[3] |->
                                  PyStr(resolve_config[3][i])]) >>)
    /\ enabled_tools' = resolve_config[3]
    /\ UNCHANGED << open_clients, api_key, files, pc, name, arguments, access_token, sent, r,
                    tasks, ndone, raised, result, bearerToken, environ,
                    advertised >>

\* the host asks for the tools: list_tools_mcp answers
ListTools ==
    /\ advertised' = list_tools_mcp
    /\ UNCHANGED << open_clients, api_key, files, pc, name, arguments, access_token, sent, r,
                    tasks, ndone, ret, raised, result, bearerToken, environ,
                    enabled_tools >>

ConfigNext == ResolveConfig \/ ListTools

ConfigSpec == ConfigInit /\ [][ConfigNext]_vars

\* the tool names the configuration enables
EnabledNames == { resolve_config[3][i] : i \in DOMAIN resolve_config[3] }

\* C16: the list the host is shown is the catalog projected onto the enabled
\* tools: the catalog tools whose name is enabled, in catalog order, enabled
\* names outside the catalog ignored
C16_AdvertisedIsProjection ==
    advertised /= <<>> =>
        advertised = SelectSeq(list_tools, LAMBDA n : n \in EnabledNames)

\* C17: with an API key configured every request, login included, carries the
\* key as header X-API-Key and as query parameter api_key_header_value, and
\* never in its body
C17_KeyOnEveryRequest ==
    Truthy(api_key) =>
        \A k \in DOMAIN sent :
            /\ "X-API-Key" \in DOMAIN sent[k].headers
            /\ sent[k].headers["X-API-Key"] = api_key.s
            /\ "api_key_header_value" \in DOMAIN sent[k].params
            /\ sent[k].params["api_key_header_value"] = api_key
            /\ sent[k].body.t = "dict" =>
                  DOMAIN sent[k].body.d \cap {"X-API-Key", "api_key_header_value"} = {}

\* the response is a failure: a non-2xx answer, or no answer at all
FailureResponse(resp) == resp.kind = "transport" \/ Non2xx(resp)

\* C18: a client method sends at most one request; whatever the answer (a
\* non-2xx status such as a 401 with a token held, a timeout, a transport
\* failure) the method ends on it, with an exception when the answer is a
\* failure, and sends nothing more
C18_NoRetry ==
    /\ [](Len(sent) <= 1)
    /\ [][(pc = "wait") =>
            /\ pc' = "done"
            /\ sent' = sent
            /\ access_token = access_token' \/ name = "auth_login"
            /\ FailureResponse(r') =>
                  /\ raised' /= NoExc
                  /\ ret' = PyNone
                  /\ access_token' = access_token]_vars

C18_Witness ==
    /\ pc = "done"
    /\ name = "health"
    /\ access_token = PyStr("xyz")
    /\ Len(sent) = 1
    /\ sent[1].headers["Authorization"] = "Bearer xyz"
    /\ r.status = 401
    /\ raised = HTTPStatusError(401, "Unauthorized")

(* ------------------------------------------------------------------ *)
(* concurrent auth_login calls                                          *)
(* ------------------------------------------------------------------ *)

\* the most auth_login calls the host has in progress at once
MaxLogins == 2

\* one call_tool("auth_login", ...) in progress: token is self.access_token of
\* the client that call built
NoLogin ==
    [st |-> "pending", token |-> PyNone, v |-> PyNone, exc |-> NoExc, ord |-> 0]

\* the answers tried on a login
RaceResponses ==
    { NoResponse,
      JsonResponse(401, "Unauthorized", PyDict("status" :> PyStr("denied"))),
      JsonResponse(200, "OK", PyDict("access_token" :> PyStr("xyz"))),
      JsonResponse(200, "OK", PyDict("token" :> PyStr("abc"))),
      JsonResponse(200, "OK", PyDict("other" :> PyStr("value"))) }

\* the client object of the i-th call
ClientOf(i) == [api_key |-> api_key, access_token |-> tasks[i].token]

\* the host sends n auth_login requests without waiting for the answers: the
\* server runs one call_tool per request
StartLogins(n) ==
    /\ pc = "idle"
    /\ tasks = <<>>
    /\ n \in 1..MaxLogins
    /\ tasks' = [i \in 1..n |-> NoLogin]
    /\ ndone' = 0
    /\ sent' = <<>>
    /\ pc' = "race"
    /\ UNCHANGED << open_clients, environ, enabled_tools, advertised, api_key, files, name,
                    arguments, access_token, r, ret, raised, result, bearerToken >>

\* the i-th call_tool runs up to its await: client = LightRagHttpClient(), then
\* client.login posts the credentials
LoginStart(i) ==
    /\ pc = "race"
    /\ i \in Pending
    /\ \A j \in Pending : i <= j
    /\ tasks' = [tasks EXCEPT ![i].st = "inflight",
                              ![i].token = LightRagHttpClient.access_token]
    /\ sent' = Append(sent, login(LightRagHttpClient, PyStr("admin"), PyStr("secret"),
                                  PyStr("")).req)
    /\ open_clients' = AsyncClient(open_clients)
    /\ UNCHANGED << environ, enabled_tools, advertised, api_key, files, pc, name,
                    arguments, access_token, r, ndone, ret, raised, result,
                    bearerToken >>

\* the login of the i-th call is answered (or fails): login stores the token on
\* that call's client and call_tool returns
LoginRespond(i, resp) ==
    /\ pc = "race"
    /\ i \in InFlight
    /\ resp \in RaceResponses
    /\ r' = resp
    /\ tasks' = [tasks EXCEPT
                   ![i].st = IF FinishLogin(ClientOf(i), resp).exc /= NoExc
                             THEN "raised" ELSE "done",
                   ![i].token = FinishLogin(ClientOf(i), resp).token,
                   ![i].v = FinishLogin(ClientOf(i), resp).ret,
                   ![i].exc = FinishLogin(ClientOf(i), resp).exc,
                   ![i].ord = ndone + 1]
    /\ ndone' = ndone + 1
    /\ bearerToken' = IF ResponseToken(resp) /= PyNone
                      THEN ResponseToken(resp) ELSE bearerToken
    /\ UNCHANGED << open_clients, environ, enabled_tools, advertised, api_key, files, pc, name,
                    arguments, access_token, sent, ret, raised, result >>

\* every call has returned: their frames, clients included, are gone
LoginsReturn ==
    /\ pc = "race"
    /\ \A i \in DOMAIN tasks : tasks[i].st \in {"done", "raised"}
    /\ pc' = "idle"
    /\ tasks' = <<>>
    /\ ndone' = 0
    /\ sent' = <<>>
    /\ r' = NoResponse
    /\ UNCHANGED << open_clients, environ, enabled_tools, advertised, api_key, files, name,
                    arguments, access_token, ret, raised, result, bearerToken >>

RaceNext ==
    \/ \E n \in 1..MaxLogins : StartLogins(n)
    \/ \E i \in DOMAIN tasks : LoginStart(i)
    \/ \E i \in DOMAIN tasks : \E resp \in RaceResponses : LoginRespond(i, resp)
    \/ LoginsReturn

RaceSpec == Init /\ [][RaceNext]_vars

\* the token a login payload carries: the value under the first token key
PayloadToken(v) ==
    IF v.t /= "dict" \/ \A n \in 1..3 : TokenKeys[n] \notin DOMAIN v.d THEN PyNone
    ELSE v.d[TokenKeys[CHOOSE n \in 1..3 :
                         /\ TokenKeys[n] \in DOMAIN v.d
                         /\ \A m \in 1..(n - 1) : TokenKeys[m] \notin DOMAIN v.d]]

\* C19: when several logins have run concurrently and each returned a token,
\* the token held once all of them have finished is the token of one of them,
\* never absent
C19_OneOfTheTokens ==
    (/\ pc = "race"
     /\ Len(tasks) >= 2
     /\ \A i \in DOMAIN tasks : tasks[i].st = "done" /\ Truthy(PayloadToken(tasks[i].v)))
        => \E i \in DOMAIN tasks : LightRagHttpClient.access_token = PayloadToken(tasks[i].v)

\* the tools that only read
ReadOnlyTools == {"health", "auth_status", "graph_labels", "documents_list_statuses"}

\* the path each of them asks for
ReadOnlyPath ==
    [health |-> "/health", auth_status |-> "/auth-status",
     graph_labels |-> "/graph/label/list", documents_list_statuses |-> "/documents"]

\* C20: health, auth_status, graph_labels and documents_list_statuses send one
\* GET without a body, leave the token and the key as they were, and what they
\* return depends on the backend's answer alone, so two calls answered alike
\* return the same
C20_ReadOnlyTools ==
    [][(pc = "wait" /\ name \in ReadOnlyTools) =>
          /\ Len(sent) = 1
          /\ sent[1].verb = "GET"
          /\ sent[1].url = BaseUrl \o ReadOnlyPath[name]
          /\ sent[1].body = PyNone
          /\ access_token' = access_token
          /\ api_key' = api_key
          /\ raised' = IF r'.kind = "transport" THEN TransportError
                       ELSE IF Non2xx(r') THEN HTTPStatusError(r'.status, r'.reason)
                       ELSE NoExc
          /\ ret' = IF FailureResponse(r') THEN PyNone
                    ELSE IF r'.isjson THEN r'.json
                    ELSE PyDict("raw" :> PyStr(r'.text))]_vars

C20_Witness ==
    /\ pc = "done"
    /\ name = "graph_labels"
    /\ access_token = PyStr("xyz")
    /\ sent[1].verb = "GET"
    /\ r = JsonResponse(200, "OK", PyList(<< PyStr("a") >>))
    /\ ret = PyList(<< PyStr("a") >>)

(* ------------------------------------------------------------------ *)
(* The raw fallback (client.py, json_or_raw)                            *)
(* ------------------------------------------------------------------ *)

\* a 2xx response whose body is not JSON
PlainOk(resp) ==
    resp.kind = "http" /\ resp.status \in 200..299 /\ ~resp.isjson

\* the success blocks a tool returns: the bare text of query, the JSON block of
\* every other branch; never the text of the exception handlers
SuccessBlocks(b) ==
    /\ Len(b) = 1
    /\ b[1].type = "text"
    /\ IF name = "query"
       THEN b[1].enc = "plain" /\ ~StartsWith(b[1].text, "Error: ")
                               /\ ~StartsWith(b[1].text, "HTTP error: ")
       ELSE b[1].enc = "json"

\* C21: a non-streaming client method whose request is answered 2xx with a body
\* that is not JSON returns {"raw": <the body text>}, and the tool returns its
\* normal success block, not an error text; an upload of documents_upload_files
\* answered so finishes with the same value
C21_RawFallback ==
    [][ /\ (pc = "wait" /\ pc' = "done" /\ name /= "query_stream" /\ PlainOk(r'))
            => /\ ret' = PyDict("raw" :> PyStr(r'.text))
               /\ raised' = NoExc
               /\ SuccessBlocks(result')
        /\ \A i \in InFlight :
             (tasks'[i].st /= "inflight" /\ PlainOk(r'))
                => /\ tasks'[i].st = "done"
                   /\ tasks'[i].v = PyDict("raw" :> PyStr(r'.text)) ]_vars

\* a tool other than query has returned the JSON block of a raw fallback
C21_Witness ==
    /\ pc = "done" /\ name = "health" /\ PlainOk(r)
    /\ ret = PyDict("raw" :> PyStr("plain text"))
    /\ result = << _as_json_content(PyDict([result |-> ret])) >>

(* ------------------------------------------------------------------ *)
(* The stream of query_stream, line by line (client.py, _post_json)     *)
(* ------------------------------------------------------------------ *)

\* the longest stream a behaviour reads
MaxLines == 3

\* the lines the backend may send
LineTexts == {"", "a", "b"}

\* async with self.client.stream(...) as r: r.raise_for_status()
\* The status line arrives (or the request fails); no line has been read.
StreamOpen(resp) ==
    /\ pc = "wait"
    /\ sent[Len(sent)].stream
    /\ resp \in {NoResponse} \cup ErrorResponses \cup {StreamResponse(200, "OK", <<>>)}
    /\ r' = [resp EXCEPT !.lines = <<>>]
    /\ IF raise_for_status(resp) /= NoExc
       THEN /\ raised' = raise_for_status(resp)
            /\ pc' = "done"
       ELSE /\ raised' = NoExc
            /\ pc' = "stream"
    /\ UNCHANGED << open_clients, environ, enabled_tools, advertised, api_key, files, name,
                    arguments, access_token, sent, tasks, ndone, ret, result,
                    bearerToken >>

\* async for line in r.aiter_lines(): one more line arrives; the chunks are the
\* lines read so far that are not empty
StreamLine(line) ==
    /\ pc = "stream"
    /\ Len(r.lines) < MaxLines
    /\ r' = [r EXCEPT !.lines = Append(@, line)]
    /\ UNCHANGED << open_clients, environ, enabled_tools, advertised, api_key, files, pc, name,
                    arguments, access_token, sent, tasks, ndone, ret, raised,
                    result, bearerToken >>

\* the stream ends: the loop is left and the method returns
StreamEnd ==
    /\ pc = "stream"
    /\ ret' = FinishStream(Client, r).ret
    /\ raised' = FinishStream(Client, r).exc
    /\ pc' = "done"
    /\ UNCHANGED << open_clients, environ, enabled_tools, advertised, api_key, files, name,
                    arguments, access_token, sent, r, tasks, ndone, result,
                    bearerToken >>

\* the connection breaks while lines are read: aiter_lines raises
StreamAbort ==
    /\ pc = "stream"
    /\ raised' = Raise("ReadError", "")
    /\ pc' = "done"
    /\ UNCHANGED << open_clients, environ, enabled_tools, advertised, api_key, files, name,
                    arguments, access_token, sent, r, tasks, ndone, ret, result,
                    bearerToken >>

StreamNext ==
    \/ \E a \in ArgsOf("query_stream") : ClientInvoke("query_stream", a)
    \/ \E resp \in {NoResponse} \cup ErrorResponses \cup {StreamResponse(200, "OK", <<>>)} :
          StreamOpen(resp)
    \/ \E line \in LineTexts : StreamLine(line)
    \/ StreamEnd
    \/ StreamAbort
    \/ ClientReturn

StreamSpec == Init /\ [][StreamNext]_vars

\* the lines that are not empty, in the order they arrived
NonEmptyLines(lines) == SelectSeq(lines, LAMBDA x : x /= "")

\* C22: a streaming request returns only after the stream has ended, and its
\* value is the stream's non-empty lines joined by "\n" with no separator at
\* the end; a non-2xx status raises before any line is read
C22_StreamJoin ==
    /\ pc = "stream" => (ret = PyNone /\ raised = NoExc)
    /\ (pc = "done" /\ name = "query_stream" /\ raised = NoExc)
          => ret = PyDict("raw_stream" :> PyStr(Concat(NonEmptyLines(r.lines), "\n")))
    /\ (pc = "done" /\ name = "query_stream" /\ Non2xx(r))
          => (raised = HTTPStatusError(r.status, r.reason) /\ r.lines = <<>>
              /\ ret = PyNone)

\* a stream with an empty line between two lines has been read to its end
C22_Witness ==
    /\ pc = "done" /\ name = "query_stream" /\ raised = NoExc
    /\ r.lines = << "a", "", "b" >>
    /\ ret = PyDict("raw_stream" :> PyStr("a\nb"))

(* ------------------------------------------------------------------ *)
(* The precedence of the settings (config.py, resolve_config)           *)
(* ------------------------------------------------------------------ *)

\* text consists of slashes only
OnlySlashes(text) == \A i \in 1..Len(text) : SubSeq(text, i, i) = "/"

\* short is long with its trailing slashes removed
Unslashed(short, long) ==
    /\ \E k \in 0..Len(long) :
          short = SubSeq(long, 1, k) /\ OnlySlashes(SubSeq(long, k + 1, Len(long)))
    /\ short = "" \/ SubSeq(short, Len(short), Len(short)) /= "/"

\* the names a comma-separated text stands for: split at the commas, trimmed,
\* the empty ones dropped
NamesOf(text) ==
    CASE text = "" -> <<>>
      [] text = "query" -> << "query" >>
      [] text = "health,query" -> << "health", "query" >>
      [] text = " graphs_get ,,nope" -> << "graphs_get", "nope" >>
      [] text = "query, health" -> << "query", "health" >>

\* the setting the precedence picks among a flag, a variable and a fallback:
\* the flag when given, else the variable when not empty, else the fallback
Pick(flag, variable, fallback) ==
    IF flag /= PyNone THEN flag
    ELSE IF variable /= PyNone /\ variable /= PyStr("") THEN variable
    ELSE fallback

\* the tools the precedence picks: --tools, LIGHTRAG_TOOLS, config.yaml, default
PickedTools ==
    IF Pick(environ.argv_tools, environ.LIGHTRAG_TOOLS, PyNone) /= PyNone
    THEN NamesOf(Pick(environ.argv_tools, environ.LIGHTRAG_TOOLS, PyNone).s)
    ELSE IF environ.yaml_tools /= PyNone
    THEN [i \in DOMAIN environ.yaml_tools.l |-> environ.yaml_tools.l[i].s]
    ELSE DEFAULT_TOOLS

\* C24: resolve_config picks each setting by the precedence flag > environment
\* variable > config.yaml > default: the tools come from --tools if given, else
\* from LIGHTRAG_TOOLS if not empty, else from the enabled_tools list of
\* config.yaml if present, else from DEFAULT_TOOLS, comma-split, trimmed and
\* without empty names; the base URL is the picked URL (the default when the
\* picked one is empty) without trailing slashes; the key is the picked key,
\* none when it is empty
C24_Precedence ==
    ret /= PyNone =>
        /\ ret.l[3] = PyList([i \in DOMAIN PickedTools |-> PyStr(PickedTools[i])])
        /\ enabled_tools = PickedTools
        /\ LET url == Pick(environ.argv_service_url, environ.LIGHTRAG_BASE_URL,
                           PyStr("http://localhost:9621"))
           IN  Unslashed(ret.l[1].s,
                         IF url = PyStr("") THEN "http://localhost:9621" ELSE url.s)
        /\ LET key == Pick(environ.argv_key, environ.LIGHTRAG_API_KEY, PyNone)
           IN  ret.l[2] = IF key = PyStr("") THEN PyNone ELSE key

\* the flag beats the variable for the tools, the variable supplies the URL with
\* its slashes removed
C24_Witness ==
    /\ ret /= PyNone
    /\ environ.argv_tools = PyStr(" graphs_get ,,nope")
    /\ environ.LIGHTRAG_TOOLS = PyStr("query")
    /\ environ.yaml_tools /= PyNone
    /\ environ.argv_service_url = PyNone
    /\ environ.LIGHTRAG_BASE_URL = PyStr("http://env:9621//")
    /\ ret.l[1] = PyStr("http://env:9621")
    /\ enabled_tools = << "graphs_get", "nope" >>

(* ------------------------------------------------------------------ *)
(* Starting the two entrypoints (lightrag_mcp.py, lightrag_mcp_server.py) *)
(* ------------------------------------------------------------------ *)

\* whether python compiles the module: lightrag_mcp_server.py has a string
\* literal broken by a line end ('data = "' at line 186), a SyntaxError
Compiles(module) == module /= "lightrag_mcp_server"

\* base, key = resolve_config(): the exception the unpacking raises
Unpack2(t) ==
    IF Len(t) = 2 THEN NoExc
    ELSE IF Len(t) > 2 THEN Raise("ValueError", "too many values to unpack (expected 2)")
    ELSE Raise("ValueError", "not enough values to unpack (expected 2)")

\* python lightrag_mcp.py: asyncio.run(main()) up to app.run
main ==
    /\ pc = "idle"
    /\ name' = "lightrag_mcp"
    /\ raised' = IF Compiles("lightrag_mcp") THEN Unpack2(resolve_config)
                 ELSE Raise("SyntaxError", "")
    /\ pc' = IF raised' = NoExc THEN "serving" ELSE "crashed"
    /\ UNCHANGED << open_clients, environ, enabled_tools, advertised, api_key, files, arguments,
                    access_token, sent, r, tasks, ndone, ret, result, bearerToken >>

\* python lightrag_mcp_server.py: the module is compiled before any of it runs
server_main ==
    /\ pc = "idle"
    /\ name' = "lightrag_mcp_server"
    /\ raised' = IF Compiles("lightrag_mcp_server") THEN NoExc
                 ELSE Raise("SyntaxError",
                            "unterminated string literal (detected at line 187)")
    /\ pc' = IF raised' = NoExc THEN "serving" ELSE "crashed"
    /\ UNCHANGED << open_clients, environ, enabled_tools, advertised, api_key, files, arguments,
                    access_token, sent, r, tasks, ndone, ret, result, bearerToken >>

StartNext == main \/ server_main

StartSpec == ConfigInit /\ [][StartNext]_vars

\* C23: the synchronous entrypoint behaves as the asynchronous one does: once
\* started it loads and serves tool calls (sending the same requests and
\* returning the same blocks as call_tool of lightrag_mcp.py)
C23_SyncServesAsAsync ==
    name = "lightrag_mcp_server" => (pc = "serving" /\ raised = NoExc)

\* C28: main() of lightrag_mcp.py, once started, unpacks what resolve_config
\* returns without error and reaches app.run
C28_MainServes ==
    name = "lightrag_mcp" => (pc = "serving" /\ raised = NoExc)

(* ------------------------------------------------------------------ *)
(* What a call leaves alone (client.py)                                 *)
(* ------------------------------------------------------------------ *)

C26_AcceptHeader ==
    pc = "wait" =>
        \A k \in DOMAIN sent :
            IF sent[k].url = BaseUrl \o "/login"
            THEN /\ "Accept" \notin DOMAIN sent[k].headers
                 /\ api_key \notin {PyNone, PyStr("")} =>
                        /\ "X-API-Key" \in DOMAIN sent[k].headers
                        /\ sent[k].headers["X-API-Key"] = api_key.s
                 /\ access_token \notin {PyNone, PyStr("")} =>
                        /\ "Authorization" \in DOMAIN sent[k].headers
                        /\ sent[k].headers["Authorization"] = "Bearer " \o access_token.s
            ELSE /\ "Accept" \in DOMAIN sent[k].headers
                 /\ sent[k].headers["Accept"] = "application/json"

\* a login is sent by a client that has a key and holds a token
C26_Witness ==
    /\ pc = "wait" /\ name = "auth_login"
    /\ access_token = PyStr("xyz") /\ api_key = PyStr("secret")
    /\ sent[1].headers = ("X-API-Key" :> "secret") @@ ("Authorization" :> "Bearer xyz")

(* ------------------------------------------------------------------ *)
(* The stored token is never empty (client.py, login)                   *)
(* ------------------------------------------------------------------ *)

\* a value Python takes for false where a token is expected
EmptyValue(v) == v = PyNone \/ v = PyStr("")

\* C27: the token the client holds is absent (None) or a non-empty value taken
\* from a login response, in every state; and a login answered with an empty or
\* null value under the first of the keys access_token, token, accessToken
\* present stores nothing, whatever the later keys hold, and keeps the token
\* held before
C27_TokenNeverEmpty ==
    /\ [](access_token = PyNone
            \/ (~EmptyValue(access_token) /\ access_token = bearerToken))
    /\ [][(LoginAnswered2xx /\ PresentKeys(r') /= {} /\ EmptyValue(FirstPresent(r')))
             => access_token' = access_token]_vars

\* a login answered with an empty access_token and a usable token under a later
\* key, while a token was held: the held token is kept
C27_Witness ==
    /\ pc = "done" /\ name = "auth_login" /\ raised = NoExc
    /\ r.isjson /\ r.json.t = "dict"
    /\ DOMAIN r.json.d = {"access_token", "token"}
    /\ r.json.d["access_token"] = PyStr("")
    /\ r.json.d["token"] = PyStr("abc")
    /\ access_token = PyStr("xyz")

(* ------------------------------------------------------------------ *)
(* The documented examples (tools.py)                                   *)
(* ------------------------------------------------------------------ *)

\* the "Example input: ..." of the tool's description, as the arguments of a call
Example(n) ==
    CASE n = "auth_login" ->
             ("username" :> PyStr("admin"))
             @@ ("password" :> PyStr("secret"))
      [] n = "documents_upload_file" ->
             ("file_path" :> PyStr("/path/to/file.pdf"))
      [] n = "documents_upload_files" ->
             ("file_paths" :> PyList(<< PyStr("/a.pdf"), PyStr("/b.md") >>))
      [] n = "documents_insert_text" ->
             ("text" :> PyStr("hello"))
             @@ ("file_source" :> PyStr("notes.txt"))
      [] n = "documents_insert_texts" ->
             ("texts" :> PyList(<< PyStr("a"), PyStr("b") >>))
             @@ ("file_sources" :> PyList(<< PyStr("a.txt"), PyStr("b.txt") >>))
      [] n = "documents_delete_by_ids" ->
             ("doc_ids" :> PyList(<< PyStr("doc_123") >>))
             @@ ("delete_file" :> PyBool(FALSE))
      [] n = "documents_delete_entity" ->
             ("entity_name" :> PyStr("Apple Inc."))
      [] n = "documents_delete_relation" ->
             ("source_entity" :> PyStr("A"))
             @@ ("target_entity" :> PyStr("B"))
      [] n = "documents_track_status" ->
             ("track_id" :> PyStr("upload_20250729_170612_abc123"))
      [] n = "documents_paginated" ->
             ("page" :> PyInt(1))
             @@ ("page_size" :> PyInt(50))
             @@ ("sort_field" :> PyStr("updated_at"))
             @@ ("sort_direction" :> PyStr("desc"))
      [] n = "query" ->
             ("query" :> PyStr("Summarize recent docs"))
             @@ ("mode" :> PyStr("hybrid"))
             @@ ("top_k" :> PyInt(5))
             @@ ("only_need_context" :> PyBool(FALSE))
      [] n = "query_stream" ->
             ("query" :> PyStr("Show citations"))
             @@ ("mode" :> PyStr("hybrid"))
      [] n = "graphs_get" ->
             ("label" :> PyStr("OpenAI"))
             @@ ("max_depth" :> PyInt(3))
             @@ ("max_nodes" :> PyInt(100))
      [] n = "graph_entity_exists" ->
             ("name" :> PyStr("Apple Inc."))
      [] n = "graph_update_entity" ->
             ("entity_name" :> PyStr("Apple"))
             @@ ("updated_data" :> PyDict(("aliases" :> PyList(<< PyStr("Apple Inc") >>))))
             @@ ("allow_rename" :> PyBool(FALSE))
      [] n = "graph_update_relation" ->
             ("source_id" :> PyStr("e1"))
             @@ ("target_id" :> PyStr("e2"))
             @@ ("updated_data" :> PyDict(("weight" :> PyFloat("0.9"))))
      [] n = "ollama_generate" ->
             ("model" :> PyStr("qwen"))
             @@ ("prompt" :> PyStr("Hello"))
      [] n = "ollama_chat" ->
             ("payload" :> PyDict(("model" :> PyStr("qwen"))
             @@ ("messages" :> PyList(<< PyDict(("role" :> PyStr("user"))
             @@ ("content" :> PyStr("hi"))) >>))))
      [] OTHER -> <<>>

\* the host calls tools with the example their description gives
ExampleNext ==
    \/ \E n \in Branches : CallTool(n, Example(n))
    \/ \E resp \in ErrorResponses \cup LoginResponses \cup OkResponses
                   \cup StreamResponses \cup {NoResponse} : Respond(resp)
    \/ \E i \in DOMAIN tasks : TaskStart(i)
    \/ GatherReturn
    \/ ReturnToHost

ExampleSpec == Init /\ [][ExampleNext]_vars

\* C29: a tool called with the example input of its own description passes the
\* argument checks of its branch: the call does not end in a validation error
\* and its block is not an "Error: " text naming an argument
C29_ExamplesValidate ==
    (pc = "done" /\ arguments = Example(name) /\ sent = <<>> /\ tasks = <<>>)
        => /\ ~ArgumentError(raised)
           /\ ~(OneTextBlock(result) /\ StartsWith(result[1].text, "Error: '"))

(* ------------------------------------------------------------------ *)
(* The httpx clients of the calls (lightrag_mcp.py:103, client.py:25)   *)
(* ------------------------------------------------------------------ *)

\* the process has just started: no call yet, no client created
LeakInit ==
    /\ environ \in KeyEnvirons
    /\ api_key = resolve_config[2]
    /\ files = {}
    /\ pc = "idle"
    /\ name = ""
    /\ arguments = <<>>
    /\ access_token = PyNone
    /\ sent = <<>>
    /\ r = NoResponse
    /\ tasks = <<>>
    /\ ndone = 0
    /\ ret = PyNone
    /\ raised = NoExc
    /\ result = <<>>
    /\ bearerToken = PyNone
    /\ enabled_tools = <<>>
    /\ advertised = <<>>
    /\ open_clients = 0

\* the tools the host calls while the clients are counted
LeakTools == {"health", "auth_login", "query", "nope"}

LeakNext ==
    \/ \E n \in LeakTools : \E a \in ArgsOf(n) : CallTool(n, a)
    \/ \E resp \in ErrorResponses \cup LoginResponses \cup OkResponses
                   \cup {NoResponse} : Respond(resp)
    \/ ReturnToHost

LeakSpec == LeakInit /\ [][LeakNext]_vars

\* C30: every httpx client a call creates is released by the time the call's
\* work is over: between two calls no client is open, however many calls have
\* been served
C30_ClientsReleased ==
    (pc = "idle" /\ InFlight = {}) => open_clients = 0

====
